---- MODULE Spec2Model ----
(***************************************************************************)
(* Trap log ingestion pipeline of Gestel2026Api                            *)
(* (app/services/trap_processor_service.py, TrapProcessorService).         *)
(*                                                                         *)
(* Python strings are TLA+ strings (TLC evaluates Len, SubSeq and \o on    *)
(* them), so `in`, index, strip and split are computed on the text itself. *)
(* An Optional value is a sequence: None is <<>>, a value v is <<v>>.      *)
(* A local variable of the Python code that is read more than once is a    *)
(* parameter of a helper operator here, so that it is evaluated once.      *)
(***************************************************************************)
EXTENDS Integers, Sequences, FiniteSets, TLC

(***************************************************************************)
(* Bounds of the model.                                                    *)
(***************************************************************************)
\* Longest list of candidate events handed to the deduplicator in SpecUnit.
MaxEvents == 3
\* Most trap files in the input directory.
MaxFiles == 2
\* Most raw lines read in one run, over all its files.
MaxLines == 2
\* The most calls SpecCalls makes on one service object.
MaxCalls == 2

(***************************************************************************)
(* app/config.py                                                           *)
(***************************************************************************)
TRAPS_FOLDER == "./Traps"
OUTPUT_FOLDER == "./Output"
DEFAULT_OPERATOR_ID == 1
EVENTO_DOWN == 1
EVENTO_UP == 2
TIPO_IDENTIFICADOR_IP == 2

UP_PATTERNS ==
    << "LOADING to FULL", "is up:", "changed state to up",
       "state has changed from BAD to GOOD" >>

DOWN_PATTERNS ==
    << "FULL to DOWN", "is down:", "changed state to down",
       "state has changed from BAD to DEAD" >>

(***************************************************************************)
(* Python values                                                           *)
(***************************************************************************)
None == <<>>
Some(v) == <<v>>

\* The Python values handed to EventoCreate's Observaciones field.
PyNone == [py |-> "NoneType", val |-> ""]
PyStr(s) == [py |-> "str", val |-> s]
PyList == [py |-> "list", val |-> ""]

Range(s) == {s[i] : i \in 1..Len(s)}

\* pat in s
Contains(pat, s) ==
    \E i \in 1..(Len(s) - Len(pat) + 1) : SubSeq(s, i, i + Len(pat) - 1) = pat

\* s.index(pat), 0-based as in Python; -1 stands for the ValueError raised
\* when pat does not occur.
IndexOf(pat, s) ==
    IF Contains(pat, s)
    THEN (CHOOSE i \in 1..(Len(s) - Len(pat) + 1) :
            /\ SubSeq(s, i, i + Len(pat) - 1) = pat
            /\ \A j \in 1..(i - 1) : SubSeq(s, j, j + Len(pat) - 1) # pat) - 1
    ELSE -1

\* s[a:b] for 0 <= a, with Python's clamping of b (a negative b counts from
\* the end).
SliceTo(s, a, hi) == IF hi <= a THEN "" ELSE SubSeq(s, a + 1, hi)

Slice(s, a, b) ==
    SliceTo(s, a,
            IF b < 0 THEN Len(s) + b ELSE IF b > Len(s) THEN Len(s) ELSE b)

\* s[a:]
SliceFrom(s, a) == IF a >= Len(s) THEN "" ELSE SubSeq(s, a + 1, Len(s))

IsSpace(c) == c \in {" ", "\t", "\n", "\r", "\f"}

\* s.strip(): `keep` holds the positions of the characters that are not
\* whitespace.
StripKeep(s, keep) ==
    IF keep = {} THEN ""
    ELSE SubSeq(s, CHOOSE i \in keep : \A j \in keep : i <= j,
                   CHOOSE i \in keep : \A j \in keep : j <= i)

Strip(s) == StripKeep(s, {i \in 1..Len(s) : ~IsSpace(SubSeq(s, i, i))})

\* s.split(sep) for a one-character separator; i is s.find(sep).
RECURSIVE Split(_, _)
SplitAt(s, sep, i) ==
    IF i < 0 THEN <<s>>
    ELSE <<Slice(s, 0, i)>> \o Split(SliceFrom(s, i + 1), sep)

Split(s, sep) == SplitAt(s, sep, IndexOf(sep, s))

\* "".join(parts)
RECURSIVE Join(_)
Join(parts) == IF parts = <<>> THEN "" ELSE Head(parts) \o Join(Tail(parts))

(***************************************************************************)
(* app/schemas/evento_schema.py                                            *)
(***************************************************************************)
\* EventoCreate(ObjetoId=..., TipoEvento=..., OperadorRegistroId=...,
\* Fecha=..., Observaciones=...): the validated model, or None for the
\* ValidationError raised when Observaciones is neither None nor a str
\* (observaciones: Optional[str]).
EventoCreate(ObjetoId, TipoEvento, OperadorRegistroId, Fecha, Observaciones) ==
    IF Observaciones.py \in {"NoneType", "str"}
    THEN Some([objeto_id |-> ObjetoId,
               tipo_evento |-> TipoEvento,
               operador_registro_id |-> OperadorRegistroId,
               fecha |-> Fecha,
               observaciones |-> Observaciones])
    ELSE None

(***************************************************************************)
(* Deduplicator                                                            *)
(***************************************************************************)
\* key = (event.objeto_id, event.tipo_evento, event.fecha)
EventKey(event) == <<event.objeto_id, event.tipo_evento, event.fecha>>

\* DedupStep without the `key not in seen` test.
DedupStepNoTest(st, event, key) ==
    [seen |-> st.seen \cup {key}, unique |-> Append(st.unique, event)]

\* DedupStep where a later event of a key replaces the one kept.
DedupStepKeepLast(st, event, key) ==
    IF key \notin st.seen
    THEN [seen |-> st.seen \cup {key}, unique |-> Append(st.unique, event)]
    ELSE [seen |-> st.seen,
          unique |-> [i \in 1..Len(st.unique) |->
                        IF <<st.unique[i].objeto_id, st.unique[i].tipo_evento,
                             st.unique[i].fecha>> = key
                        THEN event ELSE st.unique[i]]]

\* One turn of the loop of _remove_duplicates: `st` is (seen, unique).
DedupStep(st, event, key) ==
    IF key \notin st.seen
    THEN [seen |-> st.seen \cup {key}, unique |-> Append(st.unique, event)]
    ELSE st

RECURSIVE DedupLoop(_, _)
DedupLoop(events, st) ==
    IF events = <<>> THEN st
    ELSE DedupLoop(Tail(events),
                   DedupStep(st, Head(events), EventKey(Head(events))))

\* _remove_duplicates(events): the argument list as the call leaves it and
\* the list returned.
RemoveDuplicates(events) ==
    [events |-> events,
     unique |-> DedupLoop(events, [seen |-> {}, unique |-> <<>>]).unique]

(***************************************************************************)
(* DateParser                                                              *)
(***************************************************************************)
Digits == <<"0", "1", "2", "3", "4", "5", "6", "7", "8", "9">>

IsDigit(c) == c \in Range(Digits)

DigitValue(c) == (CHOOSE i \in 1..10 : Digits[i] = c) - 1

RECURSIVE DigitsValue(_, _)
DigitsValue(s, acc) ==
    IF s = "" THEN acc
    ELSE DigitsValue(SliceFrom(s, 1),
                     IF SubSeq(s, 1, 1) = "_" THEN acc
                     ELSE 10 * acc + DigitValue(SubSeq(s, 1, 1)))

\* The digits of an int literal: they may be grouped by single underscores.
WellFormedInt(body) ==
    /\ Len(body) > 0
    /\ IsDigit(SubSeq(body, 1, 1))
    /\ IsDigit(SubSeq(body, Len(body), Len(body)))
    /\ \A i \in 1..Len(body) :
          \/ IsDigit(SubSeq(body, i, i))
          \/ /\ SubSeq(body, i, i) = "_"
             /\ SubSeq(body, i + 1, i + 1) # "_"

PyIntBody(body, sign) ==
    IF WellFormedInt(body) THEN Some(sign * DigitsValue(body, 0)) ELSE None

PyIntStripped(t) ==
    IF t # "" /\ SubSeq(t, 1, 1) = "-" THEN PyIntBody(SliceFrom(t, 1), -1)
    ELSE IF t # "" /\ SubSeq(t, 1, 1) = "+" THEN PyIntBody(SliceFrom(t, 1), 1)
    ELSE PyIntBody(t, 1)

\* int(s): surrounding whitespace and one sign are accepted; None stands for
\* the ValueError.
PyInt(s) == PyIntStripped(Strip(s))

IsLeap(y) == (y % 4 = 0 /\ y % 100 # 0) \/ y % 400 = 0

DaysInMonth(y, m) ==
    IF m = 2 THEN (IF IsLeap(y) THEN 29 ELSE 28)
    ELSE IF m \in {4, 6, 9, 11} THEN 30 ELSE 31

\* datetime(year, month, day, hour, minute, second); None stands for the
\* ValueError of a field out of range.
MakeDatetime(year, month, day, hour, minute, second) ==
    IF /\ year \in 1..9999
       /\ month \in 1..12
       /\ day \in 1..DaysInMonth(year, month)
       /\ hour \in 0..23
       /\ minute \in 0..59
       /\ second \in 0..59
    THEN Some([year |-> year, month |-> month, day |-> day,
               hour |-> hour, minute |-> minute, second |-> second])
    ELSE None

\* The six int(...) results of _extract_date; any ValueError yields None.
DatetimeOf(year, month, day, hour, minute, second) ==
    IF None \in {year, month, day, hour, minute, second} THEN None
    ELSE MakeDatetime(year[1], month[1], day[1],
                      hour[1], minute[1], second[1])

\* DateTimeFields that reads the seconds without cutting them to two
\* characters.
DateTimeFieldsNoCut(year, month, day, time_parts) ==
    IF Len(time_parts) < 3 THEN None
    ELSE DatetimeOf(year, month, day, PyInt(time_parts[1]),
                    PyInt(time_parts[2]), PyInt(time_parts[3]))

\* time_parts = time_part.split(':') and the three fields read from it; a
\* missing field is the IndexError.
DateTimeFields(year, month, day, time_parts) ==
    IF Len(time_parts) < 3 THEN None
    ELSE DatetimeOf(year, month, day, PyInt(time_parts[1]),
                    PyInt(time_parts[2]), PyInt(Slice(time_parts[3], 0, 2)))

\* parts = date_part.split('-') and the fields read from it.
DateFields(parts) ==
    IF Len(parts) < 3 THEN None
    ELSE DateTimeFields(PyInt(parts[1]), PyInt(parts[2]),
                        PyInt(Slice(parts[3], 0, 2)),
                        Split(SliceFrom(parts[3], 2), ":"))

\* _extract_date(date_part): every exception of the body yields None.
ExtractDate(date_part) == DateFields(Split(date_part, "-"))

\* %m, %d, %H, %M, %S: two digits, zero padded
Pad2(n) == IF n < 10 THEN "0" \o ToString(n) ELSE ToString(n)

\* fecha.strftime("%Y-%m-%d %H:%M:%S")
Strftime(fecha) ==
    ToString(fecha.year) \o "-" \o Pad2(fecha.month) \o "-" \o Pad2(fecha.day)
    \o " " \o Pad2(fecha.hour) \o ":" \o Pad2(fecha.minute)
    \o ":" \o Pad2(fecha.second)

(***************************************************************************)
(* ScriptEmitter                                                           *)
(***************************************************************************)
\* str(Path(folder) / name): pathlib drops a leading "./".
PathJoin(folder, name) ==
    (IF Slice(folder, 0, 2) = "./" THEN SliceFrom(folder, 2) ELSE folder)
    \o "/" \o name

SqlPath(filename) ==
    PathJoin(OUTPUT_FOLDER, "InsertSQLEventos-" \o filename \o ".sql")

ErrorPath(filename) ==
    PathJoin(OUTPUT_FOLDER, "ErroresImportant-" \o filename)

InsertStatement(event) ==
    "INSERT INTO Evento (ObjetoId, TipoEvento, OperadorRegistroId, Fecha) "
    \o "VALUES (" \o ToString(event.objeto_id) \o ", "
    \o ToString(event.tipo_evento) \o ", "
    \o ToString(event.operador_registro_id) \o ", '"
    \o Strftime(event.fecha) \o "');\n"

\* SqlWrites with the statements in reverse order of the events.
SqlWritesReversed(events) ==
    <<"BEGIN TRANSACTION;\n\n">>
    \o [i \in 1..Len(events) |->
          InsertStatement(events[Len(events) + 1 - i])]
    \o <<"\nCOMMIT;\n", "-- ROLLBACK;\n">>

\* The f.write calls of _generate_sql_script, in order.
SqlWrites(events) ==
    <<"BEGIN TRANSACTION;\n\n">>
    \o [i \in 1..Len(events) |-> InsertStatement(events[i])]
    \o <<"\nCOMMIT;\n", "-- ROLLBACK;\n">>

\* The f.write calls of _generate_error_file, in order.
ErrorWrites(errors) == [i \in 1..Len(errors) |-> errors[i] \o "\n"]

\* What the disk does to one output file.  at = "none": every write lands;
\* at = "open": mkdir or open raises and the file is untouched; at = "write":
\* open has truncated the file, the first `kept` writes land and an OSError
\* is raised.
NoFault == [at |-> "none", kept |-> 0]

WriteFaults(writes) ==
    {[at |-> "open", kept |-> 0]}
    \cup {[at |-> "write", kept |-> k] : k \in 0..(Len(writes) - 1)}

\* WriteFile that opens the file for appending.
WriteFileAppend(files, path, writes, fault) ==
    IF fault.at = "open" THEN [raised |-> TRUE, files |-> files]
    ELSE [raised |-> fault.at = "write",
          files |-> [p \in DOMAIN files \cup {path} |->
                       IF p # path THEN files[p]
                       ELSE (IF path \in DOMAIN files THEN files[path] ELSE "")
                            \o (IF fault.at = "write"
                                THEN Join(SubSeq(writes, 1, fault.kept))
                                ELSE Join(writes))]]

\* `files` with the text of `path` replaced.
PutFile(files, path, text) ==
    [p \in DOMAIN files \cup {path} |-> IF p = path THEN text ELSE files[p]]

\* with open(path, 'w') as f: f.write(w) for w in writes.
\* `files` maps the paths on disk to their text.
WriteFile(files, path, writes, fault) ==
    IF fault.at = "open" THEN [raised |-> TRUE, files |-> files]
    ELSE IF fault.at = "write"
    THEN [raised |-> TRUE,
          files |-> PutFile(files, path, Join(SubSeq(writes, 1, fault.kept)))]
    ELSE [raised |-> FALSE, files |-> PutFile(files, path, Join(writes))]

\* return str(path), unless the writer raised
Written(w, path) ==
    [raised |-> w.raised, files |-> w.files,
     path |-> IF w.raised THEN None ELSE Some(path)]

\* _generate_sql_script(events, filename)
GenerateSqlScript(files, events, filename, fault) ==
    Written(WriteFile(files, SqlPath(filename), SqlWrites(events), fault),
            SqlPath(filename))

\* _generate_error_file(errors, filename)
GenerateErrorFile(files, errors, filename, fault) ==
    Written(WriteFile(files, ErrorPath(filename), ErrorWrites(errors), fault),
            ErrorPath(filename))

\* The lines of a text file: the text before each "\n"; i is text.find("\n").
RECURSIVE FileLines(_)
FileLinesAt(text, i) ==
    IF i < 0 THEN (IF text = "" THEN <<>> ELSE <<text>>)
    ELSE <<Slice(text, 0, i)>> \o FileLines(SliceFrom(text, i + 1))

FileLines(text) == FileLinesAt(text, IndexOf("\n", text))

(***************************************************************************)
(* LineClassifier                                                          *)
(***************************************************************************)
\* DetermineEventType without the loop over DOWN_PATTERNS.
DetermineEventTypeDownFirst(line) ==
    IF \E i \in 1..Len(DOWN_PATTERNS) : Contains(DOWN_PATTERNS[i], line)
    THEN EVENTO_DOWN
    ELSE IF \E i \in 1..Len(UP_PATTERNS) : Contains(UP_PATTERNS[i], line)
         THEN EVENTO_UP
         ELSE 0

DetermineEventTypeUpOnly(line) ==
    IF \E i \in 1..Len(UP_PATTERNS) : Contains(UP_PATTERNS[i], line)
    THEN EVENTO_UP
    ELSE 0

\* _determine_event_type(line)
DetermineEventType(line) ==
    IF \E i \in 1..Len(UP_PATTERNS) : Contains(UP_PATTERNS[i], line)
    THEN EVENTO_UP
    ELSE IF \E i \in 1..Len(DOWN_PATTERNS) : Contains(DOWN_PATTERNS[i], line)
         THEN EVENTO_DOWN
         ELSE 0

\* any(pattern in line for pattern in all_patterns)
AnyPattern(all_patterns, line) ==
    \E i \in 1..Len(all_patterns) : Contains(all_patterns[i], line)

IsUseful(line) == AnyPattern(UP_PATTERNS \o DOWN_PATTERNS, line)

RECURSIVE UsefulLoop(_, _)
UsefulLoop(raw_lines, useful_lines) ==
    IF raw_lines = <<>> THEN useful_lines
    ELSE UsefulLoop(Tail(raw_lines),
                    IF IsUseful(Head(raw_lines))
                    THEN Append(useful_lines, Strip(Head(raw_lines)))
                    ELSE useful_lines)

\* _extract_useful_lines(file_path): raw_lines are the lines of the file;
\* when open or a read raises (read_ok = FALSE) the lines gathered so far are
\* dropped and [] is returned.
ExtractUsefulLines(raw_lines, read_ok) ==
    IF read_ok THEN UsefulLoop(raw_lines, <<>>) ELSE <<>>

(***************************************************************************)
(* IdentifierIndex                                                         *)
(***************************************************************************)
\* s LIKE p, with the wildcards % and _ of SQL.
RECURSIVE Like(_, _)
Like(s, p) ==
    IF p = "" THEN s = ""
    ELSE IF SubSeq(p, 1, 1) = "%"
         THEN \/ Like(s, SliceFrom(p, 1))
              \/ s # "" /\ Like(SliceFrom(s, 1), p)
         ELSE /\ s # ""
              /\ SubSeq(p, 1, 1) = "_" \/ SubSeq(p, 1, 1) = SubSeq(s, 1, 1)
              /\ Like(SliceFrom(s, 1), SliceFrom(p, 1))

\* ValorIdentificador.contains(identifier): LIKE '%' + identifier + '%'
ValorContains(valor, identifier) == Like(valor, "%" \o identifier \o "%")

\* The rows select(ValorIdentificador).where(TipoIdentificadorId == IP)
\* returns, in the order the store holds them.
RECURSIVE IpRows(_)
IpRows(rows) ==
    IF rows = <<>> THEN <<>>
    ELSE (IF Head(rows).TipoIdentificadorId = TIPO_IDENTIFICADOR_IP
          THEN <<Head(rows).ValorIdentificador>> ELSE <<>>)
         \o IpRows(Tail(rows))

\* self.identificadores_cache[identifier] = objeto_id; return objeto_id
CacheAndReturn(self, identifier, objeto_id) ==
    [ret |-> Some(objeto_id),
     self |-> [self EXCEPT !.identificadores_cache =
                 [k \in DOMAIN @ \cup {identifier} |->
                    IF k = identifier THEN objeto_id ELSE @[k]]]]

\* row = result.first(): `hits` are the positions of the rows the query
\* matches, and the first of them is returned.
FirstRow(self, store, identifier, hits) ==
    IF hits = {} THEN [ret |-> None, self |-> self]
    ELSE CacheAndReturn(self, identifier,
             store.rows[CHOOSE i \in hits : \A j \in hits : i <= j].ObjetoId)

\* _get_objeto_id_by_identifier that remembers a lookup that found nothing,
\* as -1, and answers None from it.
GetObjetoIdNegativeCached(self, store, identifier) ==
    IF identifier = "" THEN [ret |-> None, self |-> self]
    ELSE IF identifier \in DOMAIN self.identificadores_cache
    THEN [ret |-> IF self.identificadores_cache[identifier] < 0 THEN None
                  ELSE Some(self.identificadores_cache[identifier]),
          self |-> self]
    ELSE IF \/ ~store.up
            \/ identifier \in store.down
            \/ \A i \in 1..Len(store.rows) :
                  ~ValorContains(store.rows[i].ValorIdentificador, identifier)
    THEN [ret |-> None, self |-> CacheAndReturn(self, identifier, -1).self]
    ELSE FirstRow(self, store, identifier,
                  {i \in 1..Len(store.rows) :
                     ValorContains(store.rows[i].ValorIdentificador,
                                   identifier)})

\* _get_objeto_id_by_identifier that queries the catalogue without looking
\* into the cache first.
GetObjetoIdUncached(self, store, identifier) ==
    IF identifier = "" THEN [ret |-> None, self |-> self]
    ELSE IF ~store.up \/ identifier \in store.down
    THEN [ret |-> None, self |-> self]
    ELSE FirstRow(self, store, identifier,
                  {i \in 1..Len(store.rows) :
                     ValorContains(store.rows[i].ValorIdentificador,
                                   identifier)})

\* _get_objeto_id_by_identifier(identifier).  `self` holds ip_list and
\* identificadores_cache; `store` holds the rows of IdentificadorObjeto in the
\* order the query returns them, whether its queries succeed (up), and the
\* identifiers whose query raises although the store is up (down).
GetObjetoIdByIdentifier(self, store, identifier) ==
    IF identifier = "" THEN [ret |-> None, self |-> self]
    ELSE IF identifier \in DOMAIN self.identificadores_cache
    THEN [ret |-> Some(self.identificadores_cache[identifier]), self |-> self]
    ELSE IF ~store.up \/ identifier \in store.down
    THEN [ret |-> None, self |-> self]
    ELSE FirstRow(self, store, identifier,
                  {i \in 1..Len(store.rows) :
                     ValorContains(store.rows[i].ValorIdentificador,
                                   identifier)})

\* `not objeto_id`
Falsy(objeto_id) == objeto_id = None \/ objeto_id = Some(0)

\* _find_by_ip(line): the loop from position i of ip_list on; r is the lookup
\* of an IP that occurs in the line.
RECURSIVE FindByIpLoop(_, _, _, _)

\* _find_by_ip that returns the lookup of the first IP found in the line
\* whatever it is.
FindByIpFirstOnly(r, store, line, i) == r

FindByIpFound(r, store, line, i) ==
    IF ~Falsy(r.ret) THEN r ELSE FindByIpLoop(r.self, store, line, i + 1)

FindByIpLoop(self, store, line, i) ==
    IF i > Len(self.ip_list) THEN [ret |-> None, self |-> self]
    ELSE IF Contains(self.ip_list[i], line)
         THEN FindByIpFound(
                  GetObjetoIdByIdentifier(self, store, Strip(self.ip_list[i])),
                  store, line, i)
         ELSE FindByIpLoop(self, store, line, i + 1)

\* _find_by_ip that takes the first IP off the list as it scans.
FindByIpConsuming(self, store, line) ==
    [FindByIpLoop(self, store, line, 1) EXCEPT
       !.self.ip_list = IF @ = <<>> THEN @ ELSE Tail(@)]

FindByIp(self, store, line) == FindByIpLoop(self, store, line, 1)

(***************************************************************************)
(* EventExtractor                                                          *)
(***************************************************************************)
\* The checks on fecha and tipo_evento and the EventoCreate(...) call shared
\* by both strategies; the ValidationError is caught by the strategy's
\* `except Exception` and yields None.
EventFrom(objeto_id, fecha, tipo_evento) ==
    IF fecha = None THEN None
    ELSE IF tipo_evento = 0 THEN None
    ELSE EventoCreate(objeto_id, tipo_evento, DEFAULT_OPERATOR_ID,
                      fecha[1], PyList)

BuildEvent(objeto_id, line, parts) ==
    EventFrom(objeto_id, ExtractDate(parts[1]), DetermineEventType(line))

\* The end of both strategies: `found` is the lookup's result and the
\* service's fields after it.
EventOrNone(found, line, parts) ==
    IF Falsy(found.ret) THEN [ret |-> None, self |-> found.self]
    ELSE [ret |-> BuildEvent(found.ret[1], line, parts), self |-> found.self]

\* marca = line[idx_tunnel:idx_end].strip(); a negative index of a word
\* stands for the ValueError of line.index.
CutMarca(line, idx_tunnel, idx_word, back) ==
    IF idx_tunnel < 0 \/ idx_word < 0 THEN None
    ELSE Some(Strip(Slice(line, idx_tunnel, idx_word - back)))

\* The identifier ("marca") _process_tunnel_line cuts out of the line; None
\* when the line has none of the four phrasings or index raises ValueError.
TunnelMarca(line) ==
    IF Contains("FULL to DOWN", line) \/ Contains("LOADING to FULL", line)
    THEN CutMarca(line, IndexOf("Tunnel", line), IndexOf("from", line), 0)
    ELSE IF \/ Contains("changed state to down", line)
            \/ Contains("changed state to up", line)
    THEN CutMarca(line, IndexOf("Tunnel", line), IndexOf("changed", line), 2)
    ELSE None

\* The tunnel strategy that looks the line's IPs up even when the marca is
\* resolved, and keeps the marca's object.
WithIpAlways(byMarca, store, line) ==
    IF Falsy(byMarca.ret) THEN FindByIp(byMarca.self, store, line)
    ELSE [ret |-> byMarca.ret,
          self |-> FindByIp(byMarca.self, store, line).self]

\* if not objeto_id: objeto_id = await self._find_by_ip(line)
WithIpFallback(byMarca, store, line) ==
    IF Falsy(byMarca.ret) THEN FindByIp(byMarca.self, store, line)
    ELSE byMarca

TunnelWithMarca(self, store, line, parts, marca) ==
    IF marca = None THEN [ret |-> None, self |-> self]
    ELSE EventOrNone(
             WithIpFallback(GetObjetoIdByIdentifier(self, store, marca[1]),
                            store, line),
             line, parts)

\* _process_tunnel_line(line, parts)
ProcessTunnelLine(self, store, line, parts) ==
    TunnelWithMarca(self, store, line, parts, TunnelMarca(line))

\* The statement at which _process_tunnel_line leaves: the `return None` of
\* a line without a marca, of an unresolved object, of a bad date, of an
\* unknown kind, or the EventoCreate(...) call.
TunnelReturnsAfter(found, line, parts) ==
    IF Falsy(found.ret) THEN "unresolved"
    ELSE IF ExtractDate(parts[1]) = None THEN "no_date"
    ELSE IF DetermineEventType(line) = 0 THEN "no_kind"
    ELSE "event"

TunnelReturnsWithMarca(self, store, line, parts, marca) ==
    IF marca = None THEN "no_marca"
    ELSE TunnelReturnsAfter(
             WithIpFallback(GetObjetoIdByIdentifier(self, store, marca[1]),
                            store, line),
             line, parts)

TunnelReturnsAt(self, store, line, parts) ==
    TunnelReturnsWithMarca(self, store, line, parts, TunnelMarca(line))

\* The Object_Name strategy with the IP fallback of the tunnel strategy.
ObjectNameAtWithIp(self, store, line, parts, idx) ==
    IF idx < 0 THEN [ret |-> None, self |-> self]
    ELSE EventOrNone(
             WithIpFallback(
                 GetObjetoIdByIdentifier(
                     self, store, Split(SliceFrom(line, idx + 12), ".")[1]),
                 store, line),
             line, parts)

ObjectNameAt(self, store, line, parts, idx) ==
    IF idx < 0 THEN [ret |-> None, self |-> self]
    ELSE EventOrNone(
             GetObjetoIdByIdentifier(
                 self, store, Split(SliceFrom(line, idx + 12), ".")[1]),
             line, parts)

\* _process_object_name_line(line, parts)
ProcessObjectNameLine(self, store, line, parts) ==
    ObjectNameAt(self, store, line, parts, IndexOf("Object_Name=", line))

\* _process_line that hands a line with `Tunnel` in no tunnel phrasing on
\* to the Object_Name strategy.
ProcessLinePartsFallThrough(self, store, line, parts) ==
    IF Len(parts) < 2 THEN [ret |-> None, self |-> self]
    ELSE IF Contains("Tunnel", line) /\ TunnelMarca(line) # None
    THEN ProcessTunnelLine(self, store, line, parts)
    ELSE IF Contains("Object_Name=", line)
    THEN ProcessObjectNameLine(self, store, line, parts)
    ELSE [ret |-> None, self |-> self]

\* _process_line without the check of the number of fields.
ProcessLinePartsUnchecked(self, store, line, parts) ==
    IF Contains("Tunnel", line)
    THEN ProcessTunnelLine(self, store, line, parts)
    ELSE IF Contains("Object_Name=", line)
    THEN ProcessObjectNameLine(self, store, line, parts)
    ELSE [ret |-> None, self |-> self]

ProcessLineParts(self, store, line, parts) ==
    IF Len(parts) < 2 THEN [ret |-> None, self |-> self]
    ELSE IF Contains("Tunnel", line)
    THEN ProcessTunnelLine(self, store, line, parts)
    ELSE IF Contains("Object_Name=", line)
    THEN ProcessObjectNameLine(self, store, line, parts)
    ELSE [ret |-> None, self |-> self]

\* _process_line(line)
ProcessLine(self, store, line) ==
    ProcessLineParts(self, store, line, Split(line, "\t"))

\* Where _process_line(line) leaves the tunnel strategy; "" when it does not
\* enter it.
ReturnsAt(self, store, line) ==
    IF Len(Split(line, "\t")) >= 2 /\ Contains("Tunnel", line)
    THEN TunnelReturnsAt(self, store, line, Split(line, "\t"))
    ELSE ""

(***************************************************************************)
(* TrapProcessorPipeline: process_file                                     *)
(***************************************************************************)
\* RecordOutcome that skips a failed line without recording an error.
RecordOutcomeDropFailed(acc, line, r) ==
    IF r.ret # None
    THEN [events |-> Append(acc.events, r.ret[1]),
          errors |-> acc.errors,
          self |-> r.self]
    ELSE [events |-> acc.events, errors |-> acc.errors, self |-> r.self]

\* One turn of the loop of process_file: r is what _process_line returned
\* for `line`; `acc` holds events, errors and the service's fields.
RecordOutcome(acc, line, r) ==
    IF r.ret # None
    THEN [events |-> Append(acc.events, r.ret[1]),
          errors |-> acc.errors,
          self |-> r.self]
    ELSE [events |-> acc.events,
          errors |-> Append(acc.errors, "No se pudo procesar: " \o line),
          self |-> r.self]

\* The loop of process_file that ends at the first line that failed.
RECURSIVE ProcessLinesStopping(_, _, _)
ProcessLinesStopping(acc, store, useful_lines) ==
    IF useful_lines = <<>> THEN acc
    ELSE IF ProcessLine(acc.self, store, Head(useful_lines)).ret = None
    THEN RecordOutcome(acc, Head(useful_lines),
                       ProcessLine(acc.self, store, Head(useful_lines)))
    ELSE ProcessLinesStopping(
             RecordOutcome(acc, Head(useful_lines),
                           ProcessLine(acc.self, store, Head(useful_lines))),
             store, Tail(useful_lines))

RECURSIVE ProcessLines(_, _, _)
ProcessLines(acc, store, useful_lines) ==
    IF useful_lines = <<>> THEN acc
    ELSE ProcessLines(
             RecordOutcome(acc, Head(useful_lines),
                           ProcessLine(acc.self, store, Head(useful_lines))),
             store, Tail(useful_lines))

\* The locals of process_file after unique_events = _remove_duplicates(events).
FileLocals(filename, lines_read, read_ok, useful_lines, loop) ==
    [self |-> loop.self,
     locals |-> [filename |-> filename, lines_read |-> lines_read,
                 read_ok |-> read_ok, useful_lines |-> useful_lines,
                 events |-> loop.events, errors |-> loop.errors,
                 unique_events |-> RemoveDuplicates(loop.events).unique]]

HandleLines(self, store, filename, lines_read, read_ok, useful_lines) ==
    FileLocals(filename, lines_read, read_ok, useful_lines,
               ProcessLines([events |-> <<>>, errors |-> <<>>, self |-> self],
                            store, useful_lines))

\* process_file(file_path), lines 232-244: read the file, handle each useful
\* line, deduplicate.  The environment decides the lines of the file, whether
\* reading it succeeds and whether the store answers queries.
ProcessFileLines(self, rows, filename, raw_lines, read_ok, store_up) ==
    HandleLines(self, [rows |-> rows, up |-> store_up, down |-> {}], filename,
                Len(raw_lines), read_ok,
                ExtractUsefulLines(raw_lines, read_ok))

\* ErrorFileStep without the `if errors` test.
ErrorFileStepAlways(files, errors, filename, fault) ==
    GenerateErrorFile(files, errors, filename, fault)

\* error_file = await self._generate_error_file(...) if errors else None
ErrorFileStep(files, errors, filename, fault) ==
    IF errors # <<>>
    THEN GenerateErrorFile(files, errors, filename, fault)
    ELSE [raised |-> FALSE, files |-> files, path |-> None]

\* The dict process_file returns (the wall-clock processing_time is left out).
FileResult(filename, unique_events, errors, sql_file, error_file) ==
    [filename |-> filename,
     events |-> unique_events,
     events_count |-> Len(unique_events),
     errors_count |-> Len(errors),
     sql_file |-> sql_file,
     error_file |-> error_file]

\* After both writers returned.
AfterErrorFile(locals, sql, err) ==
    IF err.raised
    THEN [ret |-> None, raised |-> Some("error_file"), files |-> err.files]
    ELSE [ret |-> Some(FileResult(locals.filename, locals.unique_events,
                                  locals.errors, sql.path[1], err.path)),
          raised |-> None, files |-> err.files]

\* After _generate_sql_script returned or raised.
AfterSqlScript(locals, sql, err_fault) ==
    IF sql.raised
    THEN [ret |-> None, raised |-> Some("sql_file"), files |-> sql.files]
    ELSE AfterErrorFile(locals, sql,
                        ErrorFileStep(sql.files, locals.errors,
                                      locals.filename, err_fault))

\* process_file(file_path), lines 246-264: write the two output files and
\* build the result.  `ret` is None when an exception leaves process_file;
\* `raised` then names the writer that raised.
ProcessFileOutputs(files, locals, sql_fault, err_fault) ==
    AfterSqlScript(locals,
                   GenerateSqlScript(files, locals.unique_events,
                                     locals.filename, sql_fault),
                   err_fault)

(***************************************************************************)
(* The environment of a run                                                *)
(***************************************************************************)
\* The rows of IdentificadorObjeto.
Catalogue ==
    << [ValorIdentificador |-> "T1", TipoIdentificadorId |-> 1,
        ObjetoId |-> 42],
       [ValorIdentificador |-> "Router7", TipoIdentificadorId |-> 1,
        ObjetoId |-> 9],
       [ValorIdentificador |-> "10.0.0.1",
        TipoIdentificadorId |-> TIPO_IDENTIFICADOR_IP, ObjetoId |-> 7] >>

\* The raw lines trap files are made of.
SampleLines ==
    { "2025-3-1409:15:42.500\tTunnel T1 from X changed state to down",
      "2025-3-1409:15:42.500\tObject_Name=Router7.domain.com is up:",
      "Object_Name=Router7.domain.com is down: ",
      "2025-3-1409:16:00\tTunnel T9 from 10.0.0.1 FULL to DOWN",
      "keepalive 10.0.0.1 ok" }

RECURSIVE SeqsUpTo(_, _)
SeqsOfLen(S, shorter, n) ==
    shorter \cup {Append(q, x) : q \in {t \in shorter : Len(t) = n - 1},
                                 x \in S}

SeqsUpTo(S, n) ==
    IF n <= 0 THEN {<<>>} ELSE SeqsOfLen(S, SeqsUpTo(S, n - 1), n)

\* The name of the i-th trap file of the input directory.
TrapName(i) == "trap" \o ToString(i) \o ".txt"

\* The entries of the input directory: n trap files and, with `other`, a file
\* of another extension.
Listing(n, other) ==
    (IF other THEN <<"notes.log">> ELSE <<>>)
    \o [i \in 1..n |-> TrapName(i)]

\* list(traps_folder.glob("*.txt"))
RECURSIVE Glob(_)
Glob(entries) ==
    IF entries = <<>> THEN <<>>
    ELSE (IF /\ Len(Head(entries)) >= 4
             /\ SliceFrom(Head(entries), Len(Head(entries)) - 4) = ".txt"
          THEN <<Head(entries)>> ELSE <<>>)
         \o Glob(Tail(entries))

(***************************************************************************)
(* State                                                                   *)
(***************************************************************************)
VARIABLES
    pc,                     \* where process_all_traps stands
    ip_list,                \* self.ip_list
    identificadores_cache,  \* self.identificadores_cache
    trap_files,             \* the local trap_files of process_all_traps
    results,                \* the local results of process_all_traps
    files,                  \* the output folder: path -> text
    response,               \* what process_all_traps returned, or None
    raised,                 \* the exception that left process_all_traps
    calls,                  \* per process_file call: its locals and inputs
    arg_events,             \* SpecUnit: the list handed to _remove_duplicates
    ret_unique,             \* SpecUnit: what _remove_duplicates returned
    ret_sql,                \* SpecUnit: how _generate_sql_script ended
    prior,                  \* SpecTwice: the invocation before this one
    store_rows,             \* SpecCalls: the rows of IdentificadorObjeto now
    last_call,              \* SpecCalls, SpecPure: the last call and its result
    requests,               \* SpecRequests: per request, its processor
    heap                    \* SpecRequests: the lists and dicts, by reference

vars == <<pc, ip_list, identificadores_cache, trap_files, results, files,
          response, raised, calls, arg_events, ret_unique, ret_sql, prior,
          store_rows, last_call, requests, heap>>

unitVars ==
    <<arg_events, ret_unique, ret_sql, prior, store_rows, last_call, requests,
      heap>>

EmptyMap == [k \in {} |-> 0]

\* The requests POST /process-traps can be serving at once.
Requests == {"first", "second"}

Self == [ip_list |-> ip_list, identificadores_cache |-> identificadores_cache]

(***************************************************************************)
(* TrapProcessorPipeline: process_all_traps                                *)
(***************************************************************************)
\* The dict returned when no trap file is found (processing_time left out).
NothingToDo ==
    [success |-> FALSE,
     message |-> "No se encontraron archivos para importar",
     files_processed |-> 0,
     total_events |-> 0,
     total_errors |-> 0,
     sql_files |-> <<>>,
     error_files |-> <<>>]

\* SumField that stops after the first result.
SumFieldFirst(rs, f) == IF rs = <<>> THEN 0 ELSE Head(rs)[f]

RECURSIVE SumField(_, _)
SumField(rs, f) == IF rs = <<>> THEN 0 ELSE Head(rs)[f] + SumField(Tail(rs), f)

\* [r["sql_file"] for r in results if r["sql_file"]]
RECURSIVE SqlFiles(_)
SqlFiles(rs) ==
    IF rs = <<>> THEN <<>>
    ELSE (IF Head(rs).sql_file # "" THEN <<Head(rs).sql_file>> ELSE <<>>)
         \o SqlFiles(Tail(rs))

\* [r["error_file"] for r in results if r["error_file"]]
RECURSIVE ErrorFiles(_)
ErrorFiles(rs) ==
    IF rs = <<>> THEN <<>>
    ELSE (IF Head(rs).error_file \notin {None, Some("")}
          THEN <<Head(rs).error_file[1]>> ELSE <<>>)
         \o ErrorFiles(Tail(rs))

\* The dict returned after the loop over trap_files.
Summary(n_files, rs) ==
    [success |-> TRUE,
     message |-> "Procesamiento completado exitosamente",
     files_processed |-> n_files,
     total_events |-> SumField(rs, "events_count"),
     total_errors |-> SumField(rs, "errors_count"),
     sql_files |-> SqlFiles(rs),
     error_files |-> ErrorFiles(rs)]

\* TrapProcessorService(session), before process_all_traps is called.
Init ==
    /\ pc = "start"
    /\ ip_list = <<>>
    /\ identificadores_cache = EmptyMap
    /\ trap_files = <<>>
    /\ results = <<>>
    /\ files = EmptyMap
    /\ response = None
    /\ raised = None
    /\ calls = <<>>
    /\ arg_events = <<>>
    /\ ret_unique = None
    /\ ret_sql = None
    /\ prior = None
    /\ store_rows = Catalogue
    /\ last_call = None
    /\ requests = [r \in Requests |-> None]
    /\ heap = <<>>

\* LoadIpList that logs the failure and goes on with an empty list.
LoadIpListSwallow ==
    /\ pc = "start"
    /\ \E store_up \in BOOLEAN :
          IF store_up
          THEN /\ ip_list' = IpRows(Catalogue)
               /\ pc' = "loaded"
               /\ raised' = raised
          ELSE /\ ip_list' = ip_list
               /\ pc' = "loaded"
               /\ raised' = Some("load_ip_list")
    /\ UNCHANGED <<identificadores_cache, trap_files, results, files,
                   response, calls, unitVars>>

\* await self._load_ip_list(): the query succeeds and ip_list is replaced, or
\* it raises and the exception leaves process_all_traps.
LoadIpList ==
    /\ pc = "start"
    /\ \E store_up \in BOOLEAN :
          IF store_up
          THEN /\ ip_list' = IpRows(Catalogue)
               /\ pc' = "loaded"
               /\ raised' = raised
          ELSE /\ ip_list' = ip_list
               /\ pc' = "raised"
               /\ raised' = Some("load_ip_list")
    /\ UNCHANGED <<identificadores_cache, trap_files, results, files,
                   response, calls, unitVars>>

\* Discovered without the early return.
DiscoveredNoEarlyReturn(found) ==
    /\ trap_files' = found
    /\ pc' = "processing"
    /\ response' = response

\* The early return of process_all_traps, or the start of its loop.
Discovered(found) ==
    /\ trap_files' = found
    /\ IF found = <<>>
       THEN pc' = "returned" /\ response' = Some(NothingToDo)
       ELSE pc' = "processing" /\ response' = response

\* trap_files = list(traps_folder.glob("*.txt"))
Discover ==
    /\ pc = "loaded"
    /\ \E n \in 0..MaxFiles, other \in BOOLEAN :
          Discovered(Glob(Listing(n, other)))
    /\ UNCHANGED <<ip_list, identificadores_cache, results, files, raised,
                   calls, unitVars>>

\* The raw lines read so far in this run.
RECURSIVE LinesRead(_)
LinesRead(cs) ==
    IF cs = <<>> THEN 0 ELSE Head(cs).lines_read + LinesRead(Tail(cs))

\* results.append(result), or the exception of process_file leaving
\* process_all_traps.
FileDone(read, out) ==
    /\ ip_list' = read.self.ip_list
    /\ identificadores_cache' = read.self.identificadores_cache
    /\ files' = out.files
    /\ calls' = Append(calls, read.locals)
    /\ raised' = out.raised
    /\ IF out.ret = None
       THEN pc' = "raised" /\ results' = results
       ELSE pc' = pc /\ results' = Append(results, out.ret[1])

\* The second half of process_file under every fault of the two writers.
WriteOutputs(read) ==
    \E sql_fault \in
          {NoFault} \cup WriteFaults(SqlWrites(read.locals.unique_events)),
       err_fault \in
          {NoFault} \cup WriteFaults(ErrorWrites(read.locals.errors)) :
       /\ sql_fault # NoFault => err_fault = NoFault
       /\ err_fault # NoFault => read.locals.errors # <<>>
       /\ FileDone(read, ProcessFileOutputs(files, read.locals,
                                            sql_fault, err_fault))

\* One turn of `for file_path in trap_files`: result = await
\* self.process_file(file_path); results.append(result).
ProcessNextFile ==
    /\ pc = "processing"
    /\ Len(results) < Len(trap_files)
    /\ \E raw_lines \in SeqsUpTo(SampleLines, MaxLines - LinesRead(calls)),
          read_ok \in BOOLEAN, store_up \in BOOLEAN :
          WriteOutputs(ProcessFileLines(Self, Catalogue,
                                        trap_files[Len(results) + 1],
                                        raw_lines, read_ok, store_up))
    /\ UNCHANGED <<trap_files, response, unitVars>>

\* The totals and the return after the loop.
Summarize ==
    /\ pc = "processing"
    /\ Len(results) = Len(trap_files)
    /\ response' = Some(Summary(Len(trap_files), results))
    /\ pc' = "returned"
    /\ UNCHANGED <<ip_list, identificadores_cache, trap_files, results, files,
                   raised, calls, unitVars>>

Next == LoadIpList \/ Discover \/ ProcessNextFile \/ Summarize

Spec == Init /\ [][Next]_vars

(***************************************************************************)
(* SpecUnit: _remove_duplicates, _generate_sql_script, and the second half *)
(* of process_file followed by the summary of process_all_traps, on every  *)
(* list of up to MaxEvents events.                                         *)
(***************************************************************************)
SampleFecha1 == ExtractDate("2025-3-1409:15:42.500")[1]
SampleFecha2 == ExtractDate("2025-11-0523:05:07")[1]

\* Candidate events: the first two share a key and differ in observaciones;
\* each of the others differs from the first in one component of the key.
SampleEvents ==
    { EventoCreate(9, EVENTO_UP, DEFAULT_OPERATOR_ID, SampleFecha1, PyNone)[1],
      EventoCreate(9, EVENTO_UP, DEFAULT_OPERATOR_ID, SampleFecha1,
                   PyStr("repeated"))[1],
      EventoCreate(42, EVENTO_UP, DEFAULT_OPERATOR_ID, SampleFecha1, PyNone)[1],
      EventoCreate(9, EVENTO_DOWN, DEFAULT_OPERATOR_ID, SampleFecha1,
                   PyNone)[1],
      EventoCreate(9, EVENTO_UP, DEFAULT_OPERATOR_ID, SampleFecha2,
                   PyNone)[1] }

UnitFilename == "trap1.txt"

\* The trap files of the run whose second half SpecUnit plays.
UnitFiles == <<UnitFilename, "trap2.txt">>

InitUnit ==
    /\ pc = "unit"
    /\ ip_list = <<>>
    /\ identificadores_cache = EmptyMap
    /\ trap_files = UnitFiles
    /\ results = <<>>
    /\ files = EmptyMap
    /\ response = None
    /\ raised = None
    /\ calls = <<>>
    /\ arg_events \in SeqsUpTo(SampleEvents, MaxEvents)
    /\ ret_unique = None
    /\ ret_sql = None
    /\ prior = None
    /\ store_rows = Catalogue
    /\ last_call = None
    /\ requests = [r \in Requests |-> None]
    /\ heap = <<>>

\* The call record of _remove_duplicates: the list as it was given, and what
\* the call returned; arg_events is the list as the call leaves it.
Deduplicated(given, r) ==
    /\ arg_events' = r.events
    /\ ret_unique' = Some([given |-> given, unique |-> r.unique])

\* unique_events = self._remove_duplicates(events)
CallRemoveDuplicates ==
    /\ pc = "unit"
    /\ ret_unique = None
    /\ Deduplicated(arg_events, RemoveDuplicates(arg_events))
    /\ UNCHANGED <<pc, ip_list, identificadores_cache, trap_files, results,
                   files, response, raised, calls, ret_sql, prior,
                   store_rows, last_call,
                   requests, heap>>

ScriptDone(fault, out) ==
    /\ files' = out.files
    /\ ret_sql' = Some([raised |-> out.raised, path |-> out.path,
                        fault |-> fault])

\* sql_file = await self._generate_sql_script(unique_events, file_path.name)
CallGenerateSqlScript ==
    /\ pc = "unit"
    /\ ret_unique # None
    /\ ret_sql = None
    /\ \E fault \in {NoFault} \cup WriteFaults(SqlWrites(ret_unique[1].unique)) :
          ScriptDone(fault, GenerateSqlScript(files, ret_unique[1].unique,
                                              UnitFilename, fault))
    /\ UNCHANGED <<pc, ip_list, identificadores_cache, trap_files, results,
                   response, raised, calls, arg_events, ret_unique, prior,
                   store_rows, last_call,
                   requests, heap>>

\* Error lists as the loop of process_file leaves them: one entry per failed
\* line, at most MaxLines of them.
SampleErrors ==
    { [i \in 1..Len(q) |-> "No se pudo procesar: " \o q[i]] :
        q \in SeqsUpTo({l \in SampleLines :
                           IsUseful(l) /\ Contains("Object_Name=", l)},
                      MaxLines) }

\* The events whose key no event of the files before has.
NotSeenBefore(events) ==
    SelectSeq(events,
              LAMBDA e : \A k \in 1..Len(calls) :
                            \A n \in 1..Len(calls[k].events) :
                               EventKey(e) # EventKey(calls[k].events[n]))

\* process_file that removes the duplicates of the whole run.
UnitLocalsAcrossFiles(filename, events, errors) ==
    [filename |-> filename, events |-> events, errors |-> errors,
     unique_events |-> RemoveDuplicates(NotSeenBefore(events)).unique]

\* The locals the second half of process_file reads, for a loop that left
\* `events` and `errors`.
UnitLocals(filename, events, errors) ==
    [filename |-> filename, events |-> events, errors |-> errors,
     unique_events |-> RemoveDuplicates(events).unique]

\* results.append(result), or the exception leaving process_all_traps.
OutputsDone(locals, out) ==
    /\ files' = out.files
    /\ calls' = Append(calls, locals)
    /\ raised' = out.raised
    /\ IF out.ret = None
       THEN pc' = "raised" /\ results' = results
       ELSE pc' = "processing" /\ results' = Append(results, out.ret[1])

\* The writers of one file under a fault of the disk; only the outputs of
\* the first file of the run meet faults.
UnitOutputs(locals) ==
    \E sql_fault \in
          {NoFault} \cup WriteFaults(SqlWrites(locals.unique_events)),
       err_fault \in {NoFault} \cup WriteFaults(ErrorWrites(locals.errors)) :
       /\ sql_fault # NoFault => err_fault = NoFault
       /\ err_fault # NoFault => locals.errors # <<>>
       /\ calls # <<>> => sql_fault = NoFault /\ err_fault = NoFault
       /\ OutputsDone(locals,
                      ProcessFileOutputs(files, locals, sql_fault, err_fault))

\* process_file from `unique_events = self._remove_duplicates(events)` to its
\* return, for every outcome of its loop over the useful lines: the loop of
\* the k-th file left the events of arg_events from position k on, and the
\* loops of the files after the first left one error at most.
CallProcessFileOutputs ==
    /\ pc \in {"unit", "processing"}
    /\ ret_unique = None
    /\ Len(results) < Len(trap_files)
    /\ \E errors \in {q \in SampleErrors : calls = <<>> \/ Len(q) <= 1} :
          UnitOutputs(UnitLocals(trap_files[Len(results) + 1],
                                 SubSeq(arg_events, Len(results) + 1,
                                        Len(arg_events)),
                                 errors))
    /\ UNCHANGED <<ip_list, identificadores_cache, trap_files, response,
                   unitVars>>

NextUnit ==
    \/ CallRemoveDuplicates
    \/ CallGenerateSqlScript
    \/ CallProcessFileOutputs
    \/ Summarize

SpecUnit == InitUnit /\ [][NextUnit]_vars

(***************************************************************************)
(* SpecTwice: the pipeline invoked a second time over the same trap files, *)
(* with the catalogue unchanged.                                           *)
(***************************************************************************)
\* The first invocation has returned and process_all_traps is called again,
\* on a new TrapProcessorService(session) as the endpoint does (fresh) or on
\* the same object.  The output folder keeps its files.
Reinvoke ==
    /\ pc = "returned"
    /\ prior = None
    /\ prior' = Some([trap_files |-> trap_files, calls |-> calls,
                      results |-> results, files |-> files])
    /\ pc' = "start"
    /\ trap_files' = <<>>
    /\ results' = <<>>
    /\ calls' = <<>>
    /\ response' = None
    /\ \E fresh \in BOOLEAN :
          /\ ip_list' = IF fresh THEN <<>> ELSE ip_list
          /\ identificadores_cache' =
                IF fresh THEN EmptyMap ELSE identificadores_cache
    /\ UNCHANGED <<files, raised, arg_events, ret_unique, ret_sql,
                   store_rows, last_call,
                   requests, heap>>

\* glob finds the files of the first invocation.
DiscoverAgain ==
    /\ pc = "loaded"
    /\ prior # None
    /\ Discovered(prior[1].trap_files)
    /\ UNCHANGED <<ip_list, identificadores_cache, results, files, raised,
                   calls, unitVars>>

\* The contents a trap file can have.
SampleFiles == SeqsUpTo(SampleLines, MaxLines)

\* What _extract_useful_lines returns for each of them.
UsefulOf ==
    [raw_lines \in SampleFiles |-> ExtractUsefulLines(raw_lines, TRUE)]

\* The disk takes both output files of the call.
WriteOutputsNoFault(read) ==
    FileDone(read, ProcessFileOutputs(files, read.locals, NoFault, NoFault))

\* The contents a trap file can have, given the call of the first invocation
\* on it: as many lines, and the same useful lines.
SameFile(before) ==
    {raw_lines \in SampleFiles :
        /\ Len(raw_lines) = before.lines_read
        /\ before.read_ok => UsefulOf[raw_lines] = before.useful_lines}

\* process_file on a file of the first invocation: the file is as it was and
\* reading it goes as it did; the store answers or not.
ProcessNextFileAgain ==
    /\ pc = "processing"
    /\ prior # None
    /\ Len(results) < Len(trap_files)
    /\ \E raw_lines \in SameFile(prior[1].calls[Len(results) + 1]),
          store_up \in BOOLEAN :
          WriteOutputsNoFault(
              ProcessFileLines(Self, Catalogue, trap_files[Len(results) + 1],
                               raw_lines,
                               prior[1].calls[Len(results) + 1].read_ok,
                               store_up))
    /\ UNCHANGED <<trap_files, response, unitVars>>

\* The first invocation, as in Spec.
FirstInvocation == prior = None /\ Next

\* The second invocation loads the IP list and sums up as the first did.
LoadIpListAgain == prior # None /\ LoadIpList

SummarizeAgain == prior # None /\ Summarize

NextTwice ==
    \/ FirstInvocation
    \/ Reinvoke
    \/ LoadIpListAgain
    \/ DiscoverAgain
    \/ ProcessNextFileAgain
    \/ SummarizeAgain

SpecTwice == Init /\ [][NextTwice]_vars

(***************************************************************************)
(* SpecCalls: _get_objeto_id_by_identifier, _find_by_ip and _process_line  *)
(* called one after another on a service whose IP list is loaded, while    *)
(* the catalogue may change and queries may fail.                          *)
(***************************************************************************)
\* The catalogue with a second IP and the name of a tunnel.
CallsCatalogue ==
    Catalogue
    \o << [ValorIdentificador |-> "10.0.0.2",
           TipoIdentificadorId |-> TIPO_IDENTIFICADOR_IP, ObjetoId |-> 8],
          [ValorIdentificador |-> "Tunnel T8 backbone",
           TipoIdentificadorId |-> 1, ObjetoId |-> 5] >>

\* The same identifiers pointing at other objects.
CatalogueRenumbered ==
    [i \in DOMAIN CallsCatalogue |->
       [CallsCatalogue[i] EXCEPT !.ObjetoId = @ + 100]]

RowIsNotFirstIp(row) == row.ValorIdentificador # "10.0.0.1"

\* The catalogue after the row of the first IP was deleted.
CatalogueShrunk == SelectSeq(CallsCatalogue, RowIsNotFirstIp)

\* The useful lines with a tunnel and IP addresses.
TunnelLines ==
    { "2025-3-1409:16:00\tTunnel T9 from 10.0.0.1 FULL to DOWN",
      "2025-3-1409:16:00\tTunnel T8 from 10.0.0.2 LOADING to FULL",
      "2025-3-1409:16:00\tTunnel T9 from 10.0.0.2 to 10.0.0.1 FULL to DOWN",
      "2025-3-1409:16:00\tTunnel T7 from 10.9.9.9 FULL to DOWN" }

\* The lines process_file hands to _process_line: the useful sample lines,
\* the tunnel lines, an unknown Object_Name beside a loaded IP, a tunnel
\* line without a tab, and a line with `Tunnel` in no tunnel phrasing beside
\* a known Object_Name.
CallLines ==
    {Strip(l) : l \in {r \in SampleLines : IsUseful(r)}}
    \cup TunnelLines
    \cup { "2025-3-1409:16:00\tObject_Name=Switch3.lan at 10.0.0.1 is down:",
           "Tunnel T8 from 10.0.0.2 LOADING to FULL",
           "2025-3-1409:16:00\tTunnel T8 Object_Name=Router7.lan is down:" }

\* The identifiers handed to _get_objeto_id_by_identifier.
Fragments == {"T1", "Router7", "Router_", "", "0.0.", "10.0.0.1", "XYZ"}

\* How the store answers during one call: every query, none, or every
\* query but the one for the first IP.
StoreAnswers ==
    { [up |-> TRUE, down |-> {}], [up |-> FALSE, down |-> {}],
      [up |-> TRUE, down |-> {"10.0.0.1"}] }

StoreNow(answers) ==
    [rows |-> store_rows, up |-> answers.up, down |-> answers.down]

CallsSoFar == IF last_call = None THEN 0 ELSE last_call[1].n

\* TrapProcessorService(session) after _load_ip_list().
InitCalls ==
    /\ pc = "calls"
    /\ ip_list = IpRows(CallsCatalogue)
    /\ identificadores_cache = EmptyMap
    /\ trap_files = <<>>
    /\ results = <<>>
    /\ files = EmptyMap
    /\ response = None
    /\ raised = None
    /\ calls = <<>>
    /\ arg_events = <<>>
    /\ ret_unique = None
    /\ ret_sql = None
    /\ prior = None
    /\ store_rows = CallsCatalogue
    /\ last_call = None
    /\ requests = [r \in Requests |-> None]
    /\ heap = <<>>

\* The call returned r: the service keeps its fields, and the call is noted
\* with its argument, the store it met and the cache it found.
Called(op, arg, answers, r, at) ==
    /\ ip_list' = r.self.ip_list
    /\ identificadores_cache' = r.self.identificadores_cache
    /\ last_call' = Some([n |-> CallsSoFar + 1, op |-> op, arg |-> arg,
                          up |-> answers.up, down |-> answers.down,
                          rows |-> store_rows,
                          before |-> identificadores_cache,
                          ret |-> r.ret, at |-> at])
    /\ UNCHANGED <<pc, trap_files, results, files, response, raised, calls,
                   arg_events, ret_unique, ret_sql, prior, store_rows,
                   requests, heap>>

\* await self._get_objeto_id_by_identifier(identifier)
CallGetObjetoId ==
    /\ pc = "calls"
    /\ CallsSoFar < MaxCalls
    /\ \E identifier \in Fragments, answers \in StoreAnswers :
          Called("resolve", identifier, answers,
                 GetObjetoIdByIdentifier(Self, StoreNow(answers), identifier),
                 "")

\* await self._find_by_ip(line)
CallFindByIp ==
    /\ pc = "calls"
    /\ CallsSoFar < MaxCalls
    /\ \E line \in TunnelLines, answers \in StoreAnswers :
          Called("find_by_ip", line, answers,
                 FindByIp(Self, StoreNow(answers), line), "")

\* await self._process_line(line)
CallProcessLine ==
    /\ pc = "calls"
    /\ CallsSoFar < MaxCalls
    /\ \E line \in CallLines, answers \in StoreAnswers :
          Called("process_line", line, answers,
                 ProcessLine(Self, StoreNow(answers), line),
                 ReturnsAt(Self, StoreNow(answers), line))

\* Another session writes to IdentificadorObjeto between two calls.
ChangeCatalogue ==
    /\ pc = "calls"
    /\ store_rows = CallsCatalogue
    /\ store_rows' \in {CatalogueRenumbered, CatalogueShrunk}
    /\ UNCHANGED <<pc, ip_list, identificadores_cache, trap_files, results,
                   files, response, raised, calls, arg_events, ret_unique,
                   ret_sql, prior, last_call,
                   requests, heap>>

NextCalls ==
    CallGetObjetoId \/ CallFindByIp \/ CallProcessLine \/ ChangeCatalogue

SpecCalls == InitCalls /\ [][NextCalls]_vars

(***************************************************************************)
(* SpecPure: _extract_date on date tokens, and _extract_useful_lines       *)
(* followed by _determine_event_type on raw lines.                         *)
(***************************************************************************)
\* The fields date tokens are written from, in and out of range.
DateFieldSets ==
    [year : {2024, 2025}, month : {2, 3, 11, 13}, day : {5, 14, 29, 30},
     hour : {9, 23, 24}, minute : {5, 15, 60}, second : {7, 42},
     fraction : {"", ".500"}]

\* YYYY-M-DDHH:MM:SS[.fraction]
TokenOf(f) ==
    ToString(f.year) \o "-" \o ToString(f.month) \o "-" \o Pad2(f.day)
    \o Pad2(f.hour) \o ":" \o Pad2(f.minute) \o ":" \o Pad2(f.second)
    \o f.fraction

\* Tokens of other shapes.
OtherTokens ==
    { "bad-token", "", "2025", "2025-3", "2025-3-14", "2025-3-1409:15",
      "20x5-3-1409:15:42", "2025-3-1409:15:4.5", "2025--3-1409:15:42",
      "2025-3-14T09:15:42" }

\* The text raw lines are made of around a phrase.
LinePrefixes == {"", " ", "2025-3-1409:15:42.500\tTunnel T1 from X "}

LineSuffixes == {"", " ", "\n", " 10.0.0.1\n"}

\* The marker phrases, two of them in one line, and phrases that are none.
LinePhrases ==
    Range(UP_PATTERNS) \cup Range(DOWN_PATTERNS)
    \cup { "is down: is up:", "FULL to DOWN then LOADING to FULL",
           "is up", "Full To Down", "changed state to", "" }

RawLines ==
    {pre \o phrase \o suf :
        pre \in LinePrefixes, phrase \in LinePhrases, suf \in LineSuffixes}

\* The call to come: _extract_date on a token, or the classifier on a line.
PureCalls ==
    {[n |-> 0, op |-> "extract_date", arg |-> TokenOf(f), fields |-> Some(f),
      done |-> FALSE, ret |-> None] : f \in DateFieldSets}
    \cup {[n |-> 0, op |-> "extract_date", arg |-> t, fields |-> None,
           done |-> FALSE, ret |-> None] : t \in OtherTokens}
    \cup {[n |-> 0, op |-> "classify", arg |-> l, fields |-> None,
           done |-> FALSE, ret |-> None] : l \in RawLines}

InitPure ==
    /\ pc = "pure"
    /\ ip_list = <<>>
    /\ identificadores_cache = EmptyMap
    /\ trap_files = <<>>
    /\ results = <<>>
    /\ files = EmptyMap
    /\ response = None
    /\ raised = None
    /\ calls = <<>>
    /\ arg_events = <<>>
    /\ ret_unique = None
    /\ ret_sql = None
    /\ prior = None
    /\ store_rows = Catalogue
    /\ last_call \in {Some(c) : c \in PureCalls}
    /\ requests = [r \in Requests |-> None]
    /\ heap = <<>>

\* fecha = self._extract_date(parts[0])
CallExtractDate ==
    /\ pc = "pure"
    /\ last_call[1].op = "extract_date"
    /\ ~last_call[1].done
    /\ last_call' = Some([last_call[1] EXCEPT
                            !.done = TRUE,
                            !.ret = ExtractDate(last_call[1].arg)])
    /\ UNCHANGED <<pc, ip_list, identificadores_cache, trap_files, results,
                   files, response, raised, calls, arg_events, ret_unique,
                   ret_sql, prior, store_rows,
                   requests, heap>>

\* What the classifier makes of a raw line and of the file that holds only
\* it: the kind of the line, the useful lines, and the kind of each as the
\* extractor gets it.
Classified(raw, useful_lines) ==
    [kind |-> DetermineEventType(raw),
     useful_lines |-> useful_lines,
     kinds |-> [k \in 1..Len(useful_lines) |->
                  DetermineEventType(useful_lines[k])]]

\* useful_lines = self._extract_useful_lines(file_path), then
\* tipo_evento = self._determine_event_type(line) for each of them.
CallClassify ==
    /\ pc = "pure"
    /\ last_call[1].op = "classify"
    /\ ~last_call[1].done
    /\ last_call' = Some([last_call[1] EXCEPT
                            !.done = TRUE,
                            !.ret = Classified(
                                       last_call[1].arg,
                                       ExtractUsefulLines(
                                           <<last_call[1].arg>>, TRUE))])
    /\ UNCHANGED <<pc, ip_list, identificadores_cache, trap_files, results,
                   files, response, raised, calls, arg_events, ret_unique,
                   ret_sql, prior, store_rows,
                   requests, heap>>

NextPure == CallExtractDate \/ CallClassify

SpecPure == InitPure /\ [][NextPure]_vars

(***************************************************************************)
(* SpecRequests: the requests of POST /process-traps served at once, each  *)
(* with the processor it constructs.  The lists and dicts of the program   *)
(* live in `heap`, and a processor holds references into it.  (In main.py   *)
(* the name TrapProcessorService is bound to an empty class, so the call   *)
(* of line 118 raises; the processor here is the class of app/services.)   *)
(***************************************************************************)
\* A service class whose ip_list and identificadores_cache are attributes
\* of the class, shared by its objects.
NewServiceShared(objects) ==
    [heap |-> IF objects = <<>> THEN << <<>>, EmptyMap >> ELSE objects,
     processor |-> [ip_list |-> 1, identificadores_cache |-> 2]]

\* TrapProcessorService(session): self.ip_list = [] and
\* self.identificadores_cache = {} are two new objects.
NewService(objects) ==
    [heap |-> objects \o << <<>>, EmptyMap >>,
     processor |-> [ip_list |-> Len(objects) + 1,
                    identificadores_cache |-> Len(objects) + 2]]

InitRequests ==
    /\ pc = "calls"
    /\ ip_list = <<>>
    /\ identificadores_cache = EmptyMap
    /\ trap_files = <<>>
    /\ results = <<>>
    /\ files = EmptyMap
    /\ response = None
    /\ raised = None
    /\ calls = <<>>
    /\ arg_events = <<>>
    /\ ret_unique = None
    /\ ret_sql = None
    /\ prior = None
    /\ store_rows = CallsCatalogue
    /\ last_call = None
    /\ requests = [r \in Requests |-> None]
    /\ heap = <<>>

\* processor = TrapProcessorService(session)
Construct ==
    \E r \in Requests :
       /\ requests[r] = None
       /\ heap' = NewService(heap).heap
       /\ requests' = [requests EXCEPT ![r] = Some(NewService(heap).processor)]
       /\ UNCHANGED <<pc, ip_list, identificadores_cache, trap_files, results,
                      files, response, raised, calls, arg_events, ret_unique,
                      ret_sql, prior, store_rows, last_call>>

\* await self._load_ip_list() of one request: self.ip_list is bound to a new
\* list.
RequestLoadIpList ==
    \E r \in Requests :
       /\ requests[r] # None
       /\ heap[requests[r][1].ip_list] = <<>>
       /\ heap' = Append(heap, IpRows(store_rows))
       /\ requests' = [requests EXCEPT
                         ![r] = Some([@[1] EXCEPT !.ip_list = Len(heap) + 1])]
       /\ UNCHANGED <<pc, ip_list, identificadores_cache, trap_files, results,
                      files, response, raised, calls, arg_events, ret_unique,
                      ret_sql, prior, store_rows, last_call>>

\* await self._get_objeto_id_by_identifier(identifier) of one request: the
\* call sees the list and the dict of the request's processor, and the dict
\* is written in place.
RequestLookup ==
    \E r \in {q \in Requests : requests[q] # None},
       identifier \in {"T1", "Router7"} :
     \E self \in {[f \in DOMAIN requests[r][1] |-> heap[requests[r][1][f]]]} :
       /\ self.ip_list # <<>>
       /\ heap' = [heap EXCEPT
                     ![requests[r][1].identificadores_cache] =
                         GetObjetoIdByIdentifier(
                             self,
                             [rows |-> store_rows, up |-> TRUE, down |-> {}],
                             identifier).self.identificadores_cache]
       /\ last_call' = Some([n |-> 0, by |-> r, op |-> "resolve",
                             arg |-> identifier, rows |-> store_rows,
                             before |-> self.identificadores_cache,
                             ret |-> GetObjetoIdByIdentifier(
                                         self,
                                         [rows |-> store_rows, up |-> TRUE,
                                          down |-> {}],
                                         identifier).ret])
       /\ UNCHANGED <<pc, ip_list, identificadores_cache, trap_files, results,
                      files, response, raised, calls, arg_events, ret_unique,
                      ret_sql, prior, store_rows, requests>>

NextRequests ==
    Construct \/ RequestLoadIpList \/ RequestLookup \/ ChangeCatalogue

SpecRequests == InitRequests /\ [][NextRequests]_vars

(***************************************************************************)
(* Properties                                                              *)
(***************************************************************************)
\* The (object_id, event_kind, timestamp) triple of an event.
KeyOf(e) == <<e.objeto_id, e.tipo_evento, e.fecha>>

KeysOf(es) == {KeyOf(es[i]) : i \in 1..Len(es)}

NoSharedKey(es) ==
    \A i, j \in 1..Len(es) : i # j => KeyOf(es[i]) # KeyOf(es[j])

IsInsertLine(l) == Slice(l, 0, 19) = "INSERT INTO Evento "

\* The INSERT statements of a script, in order.
InsertLines(text) == SelectSeq(FileLines(text), IsInsertLine)

IsStatement(l) == l # ""

\* The lines of a script that are not blank.
Statements(text) == SelectSeq(FileLines(text), IsStatement)

ReturnedScript == ret_sql # None /\ ~ret_sql[1].raised

\* C1: the list the deduplicator returns holds no two events with the same
\* (object_id, event_kind, timestamp), and the script written from it holds
\* one INSERT statement per event, no two of them equal.
C1_DedupKeysUnique ==
    /\ ret_unique # None => NoSharedKey(ret_unique[1].unique)
    /\ ReturnedScript =>
          /\ Len(InsertLines(files[ret_sql[1].path[1]]))
                = Cardinality(KeysOf(ret_unique[1].given))
          /\ \A i, j \in 1..Len(InsertLines(files[ret_sql[1].path[1]])) :
                i # j => InsertLines(files[ret_sql[1].path[1]])[i]
                           # InsertLines(files[ret_sql[1].path[1]])[j]

\* A list of three events with one duplicate went through the deduplicator
\* and into a script.
C1_Witness ==
    /\ ReturnedScript
    /\ Len(ret_unique[1].given) = 3
    /\ Len(ret_unique[1].unique) = 2

\* The positions of the first occurrence of each key.
FirstPositions(es) ==
    {i \in 1..Len(es) : \A j \in 1..(i - 1) : KeyOf(es[j]) # KeyOf(es[i])}

\* The k-th smallest member of a set of positions.
NthOf(K, k) == CHOOSE i \in K : Cardinality({j \in K : j <= i}) = k

\* `out` is `es` restricted to the positions K, in order.
IsSelection(es, K, out) ==
    /\ Len(out) = Cardinality(K)
    /\ \A k \in 1..Len(out) : out[k] = es[NthOf(K, k)]

\* C2: the deduplicator returns the first occurrence of each key, in
\* first-seen order; every key of the input is in the output; the input list
\* is left as it was given.
C2_DedupKeepsFirstSeen ==
    ret_unique # None =>
       /\ IsSelection(ret_unique[1].given, FirstPositions(ret_unique[1].given),
                      ret_unique[1].unique)
       /\ KeysOf(ret_unique[1].unique) = KeysOf(ret_unique[1].given)
       /\ arg_events = ret_unique[1].given

\* The input repeats a key two positions later with another record.
C2_Witness ==
    /\ ret_unique # None
    /\ Len(ret_unique[1].given) = 3
    /\ KeyOf(ret_unique[1].given[1]) = KeyOf(ret_unique[1].given[3])
    /\ ret_unique[1].given[1] # ret_unique[1].given[3]
    /\ KeyOf(ret_unique[1].given[1]) # KeyOf(ret_unique[1].given[2])

\* C3: no script on disk holds BEGIN TRANSACTION without COMMIT, also after a
\* failure in the middle of writing it.
C3_NoUnterminatedScript ==
    \A p \in DOMAIN files :
       Contains("BEGIN TRANSACTION;", files[p]) => Contains("COMMIT;", files[p])

TwoDigits(n) == ToString(n \div 10) \o ToString(n % 10)

\* YYYY-MM-DD HH:MM:SS
Timestamp(f) ==
    ToString(f.year) \o "-" \o TwoDigits(f.month) \o "-" \o TwoDigits(f.day)
    \o " " \o TwoDigits(f.hour) \o ":" \o TwoDigits(f.minute) \o ":"
    \o TwoDigits(f.second)

InsertOf(e) ==
    "INSERT INTO Evento (ObjetoId, TipoEvento, OperadorRegistroId, Fecha) "
    \o "VALUES (" \o ToString(e.objeto_id) \o ", " \o ToString(e.tipo_evento)
    \o ", " \o ToString(e.operador_registro_id) \o ", '" \o Timestamp(e.fecha)
    \o "');"

\* C4: the script written for a list E is at
\* <output_dir>/InsertSQLEventos-<base_filename>.sql and consists of BEGIN
\* TRANSACTION;, one INSERT INTO Evento per event of E in the order of E,
\* COMMIT; and a commented-out ROLLBACK; (for E empty, BEGIN TRANSACTION; is
\* followed by COMMIT; with no INSERT).
C4_ScriptLayout ==
    ReturnedScript =>
       /\ ret_sql[1].path
             = Some("Output/InsertSQLEventos-" \o UnitFilename \o ".sql")
       /\ ret_sql[1].path[1] \in DOMAIN files
       /\ Statements(files[ret_sql[1].path[1]])
             = <<"BEGIN TRANSACTION;">>
               \o [i \in 1..Len(ret_unique[1].unique) |->
                     InsertOf(ret_unique[1].unique[i])]
               \o <<"COMMIT;", "-- ROLLBACK;">>

\* A script was written for two events or more.
C4_Witness == ReturnedScript /\ Len(ret_unique[1].unique) >= 2

\* The result r of a file agrees with the files on disk; c holds the locals
\* of the process_file call that returned r.
ResultAgrees(r, c) ==
    /\ r.sql_file \in DOMAIN files
    /\ r.events_count = Len(InsertLines(files[r.sql_file]))
    /\ r.events_count = Cardinality(KeysOf(c.events))
    /\ r.errors_count > 0 <=> r.error_file # None
    /\ r.error_file # None =>
          /\ r.error_file[1] \in DOMAIN files
          /\ Len(FileLines(files[r.error_file[1]])) = r.errors_count
    /\ r.error_file = None =>
          ("Output/ErroresImportant-" \o r.filename) \notin DOMAIN files

\* C5: for every processed file, events_count is the number of INSERT
\* statements of its script (the number of distinct keys among the extracted
\* events), errors_count is the number of lines of its error file, and the
\* error file is written and reported exactly when errors_count > 0.
C5_ResultMatchesArtifacts ==
    \A i \in 1..Len(results) : ResultAgrees(results[i], calls[i])

\* process_file returned events_count = 2 for three extracted events, and
\* errors_count = 1.
C5_Witness ==
    /\ Len(results) = 1
    /\ Len(calls[1].events) = 3
    /\ results[1].events_count = 2
    /\ results[1].errors_count = 1
    /\ results[1].error_file # None

\* Every error of the call carries one of its useful lines.
ErrorsCarryLines(c) ==
    \A k \in 1..Len(c.errors) :
       \E n \in 1..Len(c.useful_lines) : Contains(c.useful_lines[n], c.errors[k])

\* C6: every useful line yields one event or one error that carries the
\* line, so events before deduplication plus errors is the number of useful
\* lines; failed lines stop neither the file nor the remaining files.
C6_OneOutcomePerLine ==
    /\ \A i \in 1..Len(calls) :
          /\ Len(calls[i].events) + Len(calls[i].errors)
                = Len(calls[i].useful_lines)
          /\ ErrorsCarryLines(calls[i])
    /\ \A i \in 1..Len(results) :
          results[i].errors_count = Len(calls[i].errors)
    /\ (pc = "returned" /\ trap_files # <<>>) =>
          /\ Len(calls) = Len(trap_files)
          /\ Len(results) = Len(trap_files)

\* A run returned after a first file with a failed line and a second file
\* with a useful line.
C6_Witness ==
    /\ pc = "returned"
    /\ Len(calls) = 2
    /\ calls[1].errors # <<>>
    /\ calls[2].useful_lines # <<>>

\* C7: when loading the IP list fails, the run has failed with that error and
\* no file was discovered, read or written; and files are only ever processed
\* with the whole list loaded.
C7_LoadFailureIsFatal ==
    /\ raised = Some("load_ip_list") =>
          /\ pc = "raised"
          /\ response = None
          /\ trap_files = <<>>
          /\ calls = <<>>
          /\ results = <<>>
          /\ files = EmptyMap
          /\ ip_list = <<>>
    /\ (trap_files # <<>> \/ calls # <<>> \/ response # None) =>
          /\ raised # Some("load_ip_list")
          /\ ip_list = IpRows(Catalogue)

C7_Witness == raised = Some("load_ip_list")

\* C8: a disk failure while writing one file's script or error report does
\* not fail the run.
C8_OutputFaultContained ==
    raised \notin {Some("sql_file"), Some("error_file")}

\* What a result says, apart from which file it is about.
Outcome(r) ==
    [events |-> r.events, events_count |-> r.events_count,
     errors_count |-> r.errors_count, wrote_errors |-> r.error_file # None]

\* C9: the result of a file whose read failed is marked as failed: it differs
\* from the result of a file read successfully that held no useful line.
C9_ReadFailureMarked ==
    \A i, j \in 1..Len(results) :
       (~calls[i].read_ok /\ calls[j].read_ok /\ calls[j].useful_lines = <<>>)
          => Outcome(results[i]) # Outcome(results[j])

\* C10: with no trap file in the directory, process_all returns the explicit
\* nothing-to-do summary, with zero counts and empty lists, no file is
\* processed and nothing is written.
C10_NothingToDo ==
    (pc \in {"processing", "returned"} /\ trap_files = <<>>) =>
       /\ pc = "returned"
       /\ response # None
       /\ response[1].success \in BOOLEAN
       /\ response[1].message = "No se encontraron archivos para importar"
       /\ response[1].files_processed = 0
       /\ response[1].total_events = 0
       /\ response[1].total_errors = 0
       /\ response[1].sql_files = <<>>
       /\ response[1].error_files = <<>>
       /\ calls = <<>>
       /\ results = <<>>
       /\ files = EmptyMap

C10_Witness == pc = "returned" /\ trap_files = <<>>

\* The number of entries of the field f over the first n calls.
RECURSIVE EntriesUpTo(_, _)
EntriesUpTo(n, f) ==
    IF n = 0 THEN 0 ELSE EntriesUpTo(n - 1, f) + Len(calls[n][f])

NoRepeat(q) == Cardinality(Range(q)) = Len(q)

\* C11: the summary of a run over n files has files_processed = n,
\* total_events and total_errors the sums of the files' counts, one sql_files
\* entry per file that produced a script and one error_files entry per file
\* that produced an error report.
C11_SummaryTotals ==
    (pc = "returned" /\ trap_files # <<>>) =>
       /\ response # None
       /\ Len(results) = Len(trap_files)
       /\ response[1].files_processed = Len(trap_files)
       /\ response[1].total_events
             = EntriesUpTo(Len(calls), "unique_events")
       /\ response[1].total_errors = EntriesUpTo(Len(calls), "errors")
       /\ NoRepeat(response[1].sql_files)
       /\ Range(response[1].sql_files)
             = {results[i].sql_file : i \in 1..Len(results)}
       /\ Range(response[1].sql_files) \subseteq DOMAIN files
       /\ NoRepeat(response[1].error_files)
       /\ Range(response[1].error_files)
             = {"Output/ErroresImportant-" \o calls[i].filename :
                  i \in {j \in 1..Len(calls) : calls[j].errors # <<>>}}
       /\ Range(response[1].error_files) \subseteq DOMAIN files

\* A run over two files returned: five events and two errors in all, and one
\* of the files had no error.
C11_Witness ==
    /\ pc = "returned"
    /\ Len(results) = 2
    /\ response[1].total_events = 5
    /\ results[1].events_count = 3
    /\ response[1].total_errors = 2
    /\ Len(response[1].sql_files) = 2
    /\ Len(response[1].error_files) = 1

\* C12: a second invocation over the same trap files, with the catalogue
\* unchanged, leaves for each file the script the first invocation left: the
\* same path, the same text, the same INSERT statements in the same order; and
\* each line has the outcome it had.
C12_SecondRunSameScripts ==
    prior # None =>
       \A i \in 1..Len(results) :
          /\ results[i].sql_file = prior[1].results[i].sql_file
          /\ files[results[i].sql_file]
                = prior[1].files[prior[1].results[i].sql_file]
          /\ InsertLines(files[results[i].sql_file])
                = InsertLines(prior[1].files[prior[1].results[i].sql_file])
          /\ calls[i].events = prior[1].calls[i].events
          /\ calls[i].errors = prior[1].calls[i].errors

\* The second invocation ran on the object of the first, whose cache held an
\* entry, and returned after two files, one of them with a useful line.
C12_Witness ==
    /\ prior # None
    /\ pc = "returned"
    /\ Len(results) = 2
    /\ identificadores_cache # EmptyMap
    /\ \E i \in 1..2 : calls[i].useful_lines # <<>>

\* The last call was `op` on `arg` and every query of it was answered from
\* the catalogue as loaded.
Answered(op, arg) ==
    /\ last_call # None
    /\ last_call[1].op = op
    /\ last_call[1].arg = arg
    /\ last_call[1].up
    /\ last_call[1].down = {}
    /\ last_call[1].rows = CallsCatalogue

\* C13: for a tab-dated line with `Tunnel T1 from X changed state to down`
\* and a catalogue where T1 is object 42, _process_line returns an event with
\* object id 42 and kind DOWN.
C13_TunnelLineYieldsEvent ==
    Answered("process_line",
             "2025-3-1409:15:42.500\tTunnel T1 from X changed state to down")
       => /\ last_call[1].ret # None
          /\ last_call[1].ret[1].objeto_id = 42
          /\ last_call[1].ret[1].tipo_evento = EVENTO_DOWN

\* C14: for a tab-dated line with `Object_Name=Router7.domain.com is up:` and
\* a catalogue where Router7 is object 9, _process_line returns an event with
\* kind UP and object id 9.
C14_ObjectNameLineYieldsEvent ==
    Answered("process_line",
             "2025-3-1409:15:42.500\tObject_Name=Router7.domain.com is up:")
       => /\ last_call[1].ret # None
          /\ last_call[1].ret[1].objeto_id = 9
          /\ last_call[1].ret[1].tipo_evento = EVENTO_UP

\* The line holds a phrase of the vocabulary.
HasMarker(line, patterns) ==
    \E i \in 1..Len(patterns) :
       \E at \in 0..(Len(line) - Len(patterns[i])) :
          SubSeq(line, at + 1, at + Len(patterns[i])) = patterns[i]

\* C15: every line _extract_useful_lines selects (a line with a marker of
\* the up or down vocabulary) is classified UP or DOWN by
\* _determine_event_type, in the form the extractor gets it, and never 0;
\* lines without a marker are not selected.
C15_UsefulLinesHaveKind ==
    (last_call # None /\ last_call[1].op = "classify" /\ last_call[1].done)
       => /\ Len(last_call[1].ret.useful_lines)
                = (IF HasMarker(last_call[1].arg, UP_PATTERNS \o DOWN_PATTERNS)
                   THEN 1 ELSE 0)
          /\ \A k \in 1..Len(last_call[1].ret.kinds) :
                last_call[1].ret.kinds[k] \in {EVENTO_UP, EVENTO_DOWN}
          /\ \A k \in 1..Len(last_call[1].ret.kinds) :
                last_call[1].ret.kinds[k] = EVENTO_UP
                   <=> HasMarker(last_call[1].arg, UP_PATTERNS)

\* A line that ends in a down marker followed by whitespace was selected and
\* classified DOWN.
C15_Witness ==
    /\ last_call # None
    /\ last_call[1].op = "classify"
    /\ last_call[1].done
    /\ last_call[1].arg = " is down: "
    /\ last_call[1].ret.useful_lines = <<"is down:">>
    /\ last_call[1].ret.kinds = <<EVENTO_DOWN>>

\* The days of each month of a year that is not a leap year.
MonthDays == <<31, 28, 31, 30, 31, 30, 31, 31, 30, 31, 30, 31>>

\* The fields name a moment of the calendar (2024 is a leap year, 2025 is
\* not).
OnCalendar(f) ==
    /\ f.month \in 1..12
    /\ f.day >= 1
    /\ f.day <= MonthDays[f.month]
                   + (IF f.month = 2 /\ f.year = 2024 THEN 1 ELSE 0)
    /\ f.hour <= 23
    /\ f.minute <= 59
    /\ f.second <= 59

\* C16: _extract_date returns a timestamp or None and never raises: for a
\* token YYYY-M-DDHH:MM:SS[.fraction] whose fields are in range it returns
\* the timestamp with those fields, the seconds cut to two digits; for a
\* token with a field out of range, and for any token of another shape, it
\* returns None.
C16_DateParser ==
    (last_call # None /\ last_call[1].op = "extract_date" /\ last_call[1].done)
       => IF last_call[1].fields # None /\ OnCalendar(last_call[1].fields[1])
          THEN last_call[1].ret
                  = Some([year |-> last_call[1].fields[1].year,
                          month |-> last_call[1].fields[1].month,
                          day |-> last_call[1].fields[1].day,
                          hour |-> last_call[1].fields[1].hour,
                          minute |-> last_call[1].fields[1].minute,
                          second |-> last_call[1].fields[1].second])
          ELSE last_call[1].ret = None

\* parse("2025-3-1409:15:42.500") = 2025-03-14 09:15:42
C16_Witness ==
    /\ last_call # None
    /\ last_call[1].done
    /\ last_call[1].arg = "2025-3-1409:15:42.500"
    /\ last_call[1].ret
          = Some([year |-> 2025, month |-> 3, day |-> 14, hour |-> 9,
                  minute |-> 15, second |-> 42])

\* The call the step makes is resolve(f).
Resolves(call, after) ==
    after # None /\ after # call /\ after[1].op = "resolve"

\* C17: the cache of one service maps an identifier to one object id, and
\* no entry is overwritten or removed: every step keeps every entry; a
\* resolve(f) that returns an id leaves f -> id in the cache; and a
\* resolve(f) made when the cache holds f -> X returns X, whatever the
\* catalogue holds by then and whether or not the store answers.
C17_CacheNeverOverwritten ==
    [][/\ \A f \in DOMAIN identificadores_cache :
             /\ f \in DOMAIN identificadores_cache'
             /\ identificadores_cache'[f] = identificadores_cache[f]
       /\ Resolves(last_call, last_call') =>
             /\ last_call'[1].ret # None =>
                   /\ last_call'[1].arg \in DOMAIN identificadores_cache'
                   /\ identificadores_cache'[last_call'[1].arg]
                         = last_call'[1].ret[1]
             /\ last_call'[1].arg \in DOMAIN identificadores_cache =>
                   last_call'[1].ret
                     = Some(identificadores_cache[last_call'[1].arg])]_vars

\* resolve("T1") answered from the cache after the catalogue was renumbered
C17_Witness ==
    /\ last_call # None
    /\ last_call[1].op = "resolve"
    /\ last_call[1].arg = "T1"
    /\ last_call[1].up
    /\ last_call[1].rows = CatalogueRenumbered
    /\ "T1" \in DOMAIN last_call[1].before
    /\ last_call[1].ret = Some(last_call[1].before["T1"])
    /\ last_call[1].ret[1] < 100

\* The positions of the catalogue records whose value holds the fragment as
\* a substring.
SubstringHits(rows, fragment) ==
    {i \in 1..Len(rows) : Contains(fragment, rows[i].ValorIdentificador)}

\* The id of the first of the records at the positions `hits`.
FirstHitId(rows, hits) ==
    rows[CHOOSE i \in hits : \A j \in hits : i <= j].ObjetoId

\* resolve(fragment) missed the cache and met a store that answers: it
\* returns the id of the first record that holds the fragment and caches
\* it, and NotFound exactly when no record holds the fragment.
MissBySubstring(call, hits) ==
    IF hits = {} THEN call.ret = None
    ELSE /\ call.ret = Some(FirstHitId(call.rows, hits))
         /\ call.arg \in DOMAIN identificadores_cache
         /\ identificadores_cache[call.arg] = FirstHitId(call.rows, hits)

\* C18: resolve(fragment) returns the cached id on a hit, whether or not
\* the store answers; on a miss it returns the id of the first catalogue
\* record whose value contains the fragment as a substring and stores
\* fragment -> id in the cache, and it returns NotFound if and only if no
\* record contains the fragment.
C18_ResolveBySubstring ==
    (last_call # None /\ last_call[1].op = "resolve")
       => IF last_call[1].arg \in DOMAIN last_call[1].before
          THEN last_call[1].ret
                 = Some(last_call[1].before[last_call[1].arg])
          ELSE (last_call[1].up /\ last_call[1].arg \notin last_call[1].down)
                  => MissBySubstring(
                         last_call[1],
                         SubstringHits(last_call[1].rows, last_call[1].arg))

\* resolve(ip_list[i].strip()) as the call to _find_by_ip found the service.
ResolveOfIp(call, i) ==
    GetObjetoIdByIdentifier(
        [ip_list |-> ip_list, identificadores_cache |-> call.before],
        [rows |-> call.rows, up |-> call.up, down |-> call.down],
        Strip(ip_list[i])).ret

\* The positions of the loaded IPs that occur in the line.
IpsInLine(line) == {i \in 1..Len(ip_list) : Contains(ip_list[i], line)}

\* The positions of the loaded IPs that occur in the line and resolve to an
\* object id other than 0.
IpsResolved(call) ==
    {i \in IpsInLine(call.arg) : ~Falsy(ResolveOfIp(call, i))}

FirstOf(positions) == CHOOSE i \in positions : \A j \in positions : i <= j

\* C19 as claimed: resolve_by_known_ip(line) returns what resolve returns
\* for the first loaded IP, in load order, that occurs in the line, and
\* NotFound when no loaded IP occurs in the line.
C19_FirstIpDecides ==
    (last_call # None /\ last_call[1].op = "find_by_ip")
       => IF IpsInLine(last_call[1].arg) = {} THEN last_call[1].ret = None
          ELSE last_call[1].ret
                 = ResolveOfIp(last_call[1], FirstOf(IpsInLine(last_call[1].arg)))

\* C19 amended: resolve_by_known_ip(line) scans the loaded IP list in load
\* order, delegates to resolve for each IP that occurs in the line, and
\* returns the first result that is an object id other than 0; it returns
\* NotFound when no loaded IP occurs in the line or none of those that
\* occur resolves.
C19_FirstResolvedIpDecides ==
    (last_call # None /\ last_call[1].op = "find_by_ip")
       => IF IpsResolved(last_call[1]) = {} THEN last_call[1].ret = None
          ELSE last_call[1].ret
                 = ResolveOfIp(last_call[1], FirstOf(IpsResolved(last_call[1])))

\* the lookup of 10.0.0.1 fails and the line's second IP, 10.0.0.2, decides
C19_Witness ==
    /\ last_call # None
    /\ last_call[1].op = "find_by_ip"
    /\ IpsInLine(last_call[1].arg) = {1, 2}
    /\ ResolveOfIp(last_call[1], 1) = None
    /\ last_call[1].ret = Some(8)

\* resolve(fragment) as the call found the service.
ResolveOf(call, fragment) ==
    GetObjetoIdByIdentifier(
        [ip_list |-> ip_list, identificadores_cache |-> call.before],
        [rows |-> call.rows, up |-> call.up, down |-> call.down],
        fragment).ret

\* The cache with the entry k -> v.
CacheWith(cache, k, v) ==
    [x \in DOMAIN cache \cup {k} |-> IF x = k THEN v ELSE cache[x]]

\* The tunnel strategy on a line whose marca is `marca`: by_marca is what
\* resolve(marca) returns, by_ip the positions of the line's IPs that
\* resolve.
TunnelLookups(call, marca, by_marca, by_ip) ==
    IF ~Falsy(by_marca)
    THEN /\ identificadores_cache
              = CacheWith(call.before, marca, by_marca[1])
         /\ call.at # "unresolved"
    ELSE IF by_ip # {}
    THEN /\ identificadores_cache
              = CacheWith(call.before, Strip(ip_list[FirstOf(by_ip)]),
                          ResolveOfIp(call, FirstOf(by_ip))[1])
         /\ call.at # "unresolved"
    ELSE /\ identificadores_cache = call.before
         /\ call.at = "unresolved"
         /\ call.ret = None

\* C20: on a line with a date field and `Tunnel` in one of the tunnel
\* phrasings (two tab-separated fields or more, which is what _process_line
\* hands to the strategy) the strategy resolves the marca first; when that
\* succeeds the IP fallback is not consulted (the cache gains the marca and
\* no IP); only when it fails are the line's IPs looked up; and the strategy
\* leaves at the check of the object, without an event, if and only if both
\* lookups fail.
C20_MarcaThenIpFallback ==
    (/\ last_call # None
     /\ last_call[1].op = "process_line"
     /\ Contains("\t", last_call[1].arg)
     /\ Contains("Tunnel", last_call[1].arg)
     /\ TunnelMarca(last_call[1].arg) # None)
       => TunnelLookups(last_call[1], TunnelMarca(last_call[1].arg)[1],
                        ResolveOf(last_call[1],
                                  TunnelMarca(last_call[1].arg)[1]),
                        IpsResolved(last_call[1]))

\* "Tunnel T8" was resolved without a lookup of the line's 10.0.0.2, and
\* then "Tunnel T9" was not and the line's 10.0.0.1 was
C20_Witness ==
    /\ last_call # None
    /\ last_call[1].op = "process_line"
    /\ DOMAIN last_call[1].before = {"Tunnel T8"}
    /\ TunnelMarca(last_call[1].arg) = Some("Tunnel T9")
    /\ DOMAIN identificadores_cache = {"Tunnel T8", "10.0.0.1"}
    /\ last_call[1].at = "event"

\* The text of the line after its first `Object_Name=`.
AfterObjectName(line) ==
    SubSeq(line, IndexOf("Object_Name=", line) + 13, Len(line))

\* The text up to the first `.` of `rest`, or all of it when it has none.
UpToFirstDot(rest) ==
    SubSeq(rest, 1,
           CHOOSE n \in 0..Len(rest) :
              /\ \A i \in 1..n : SubSeq(rest, i, i) # "."
              /\ n = Len(rest) \/ SubSeq(rest, n + 1, n + 1) = ".")

\* The Object_Name strategy on a line whose identifier is `marca`: by_marca
\* is what resolve(marca) returns.
ObjectNameLookup(call, marca, by_marca) ==
    IF ~Falsy(by_marca)
    THEN identificadores_cache = CacheWith(call.before, marca, by_marca[1])
    ELSE /\ identificadores_cache = call.before
         /\ call.ret = None

\* The call handed the Object_Name strategy a line with a date field.
ObjectNameCall(call) ==
    /\ call.op = "process_line"
    /\ ~Contains("Tunnel", call.arg)
    /\ Contains("Object_Name=", call.arg)
    /\ Contains("\t", call.arg)

\* C21: on a useful line without `Tunnel` that holds `Object_Name=` the
\* identifier is the text after the marker up to the first `.`; it is
\* resolved with resolve only: the cache gains that identifier when it
\* resolves, and when it does not the line fails and the cache is left as
\* it was, even when a loaded IP that resolves occurs in the line.
C21_ObjectNameWithoutIpFallback ==
    (last_call # None /\ ObjectNameCall(last_call[1]))
       => ObjectNameLookup(
              last_call[1], UpToFirstDot(AfterObjectName(last_call[1].arg)),
              ResolveOf(last_call[1],
                        UpToFirstDot(AfterObjectName(last_call[1].arg))))

\* "Switch3" is unknown, the line's 10.0.0.1 would resolve, and the line
\* fails without a lookup of the IP
C21_Witness ==
    /\ last_call # None
    /\ ObjectNameCall(last_call[1])
    /\ UpToFirstDot(AfterObjectName(last_call[1].arg)) = "Switch3"
    /\ IpsResolved(last_call[1]) = {1}
    /\ last_call[1].ret = None
    /\ identificadores_cache = last_call[1].before

\* C22: _determine_event_type(line) returns UP if a marker of the up
\* vocabulary is a substring of the line, otherwise DOWN if a marker of the
\* down vocabulary is, otherwise 0; a line with a marker of each is UP.
C22_ClassifyUpBeforeDown ==
    (last_call # None /\ last_call[1].op = "classify" /\ last_call[1].done)
       => last_call[1].ret.kind
            = (IF HasMarker(last_call[1].arg, UP_PATTERNS) THEN EVENTO_UP
               ELSE IF HasMarker(last_call[1].arg, DOWN_PATTERNS)
                    THEN EVENTO_DOWN
                    ELSE 0)

\* "is down: is up:" holds a marker of each vocabulary and is UP
C22_Witness ==
    /\ last_call # None
    /\ last_call[1].op = "classify"
    /\ last_call[1].done
    /\ last_call[1].arg = "is down: is up:"
    /\ last_call[1].ret.kind = EVENTO_UP

\* The line has a tab, that is, at least two tab-separated fields.
HasTab(line) == \E i \in 1..Len(line) : SubSeq(line, i, i) = "\t"

\* C23: a useful line with fewer than two tab-separated fields is rejected
\* whatever else it holds, and before any identifier lookup: _process_line
\* returns None and the identifier cache is as the call found it.
C23_NoTabNoLookup ==
    (/\ last_call # None
     /\ last_call[1].op = "process_line"
     /\ ~HasTab(last_call[1].arg))
       => /\ last_call[1].ret = None
          /\ identificadores_cache = last_call[1].before

\* "Object_Name=Router7.domain.com is down:" has no tab: Router7 is in the
\* catalogue, the store answers, and the cache stays empty
C23_Witness ==
    /\ last_call # None
    /\ last_call[1].op = "process_line"
    /\ ~HasTab(last_call[1].arg)
    /\ Contains("Object_Name=", last_call[1].arg)
    /\ ResolveOf(last_call[1], "Router7") # None
    /\ last_call[1].ret = None
    /\ identificadores_cache = EmptyMap

\* The cache and the IP list of the processor of request r.
CacheOf(r) == heap[requests[r][1].identificadores_cache]

IpListOf(r) == heap[requests[r][1].ip_list]

\* The step is a lookup made by request r.
LookupBy(r) == last_call' # last_call /\ last_call'[1].by = r

\* C24: two requests served at once share neither the identifier cache nor
\* the loaded IP list: their processors hold different objects, and a
\* lookup made by one request leaves the cache and the IP list of the other
\* as they were.
C24_RequestsShareNothing ==
    [][\A r, other \in Requests :
         (r # other /\ requests[r] # None /\ requests[other] # None)
            => /\ requests[r][1].identificadores_cache
                    # requests[other][1].identificadores_cache
               /\ requests[r][1].ip_list # requests[other][1].ip_list
               /\ LookupBy(r) => /\ CacheOf(other)' = CacheOf(other)
                                 /\ IpListOf(other)' = IpListOf(other)]_vars

\* the first request cached T1 before the catalogue was renumbered and the
\* second after it: each holds the id it looked up itself
C24_Witness ==
    /\ requests["first"] # None
    /\ requests["second"] # None
    /\ "T1" \in DOMAIN CacheOf("first")
    /\ "T1" \in DOMAIN CacheOf("second")
    /\ CacheOf("first")["T1"] = 42
    /\ CacheOf("second")["T1"] = 142
    /\ last_call[1].by = "second"

\* C25: the IP list is loaded once per run, at the start of
\* process_all_traps and before any file is read, and is not modified
\* afterwards: once the load is over no step changes ip_list or returns to
\* the load, and a step that processes a file finds the list loaded with
\* the IP-kind identifiers of the catalogue and leaves it so.
C25_IpListLoadedOnce ==
    [][/\ pc # "start" => ip_list' = ip_list /\ pc' # "start"
       /\ calls' # calls => /\ pc = "processing"
                            /\ ip_list = IpRows(Catalogue)
                            /\ ip_list' = ip_list]_vars

\* a file with the line "Tunnel T9 from 10.0.0.1 FULL to DOWN" was processed:
\* the IP list was scanned, 10.0.0.1 was looked up, and the list is as loaded
C25_Witness ==
    /\ Len(calls) >= 1
    /\ "10.0.0.1" \in DOMAIN identificadores_cache
    /\ ip_list = <<"10.0.0.1">>

\* The line holds one of the four tunnel phrasings.
HasTunnelPhrasing(line) ==
    HasMarker(line, << "FULL to DOWN", "LOADING to FULL",
                       "changed state to down", "changed state to up" >>)

\* C27: a useful line that holds `Tunnel` is handled by the tunnel strategy
\* only: when it holds none of the four tunnel phrasings it is rejected
\* without any identifier lookup, so _process_line returns None from the
\* strategy's first check and the cache is as the call found it, even when
\* the line also holds an `Object_Name=` identifier that would resolve.
C27_TunnelStrategyExclusive ==
    (/\ last_call # None
     /\ last_call[1].op = "process_line"
     /\ HasTab(last_call[1].arg)
     /\ HasMarker(last_call[1].arg, <<"Tunnel">>)
     /\ ~HasTunnelPhrasing(last_call[1].arg))
       => /\ last_call[1].ret = None
          /\ last_call[1].at = "no_marca"
          /\ identificadores_cache = last_call[1].before

\* "Tunnel T8 Object_Name=Router7.lan is down:" is rejected although
\* Router7 would resolve
C27_Witness ==
    /\ last_call # None
    /\ last_call[1].op = "process_line"
    /\ HasTab(last_call[1].arg)
    /\ HasMarker(last_call[1].arg, <<"Tunnel">>)
    /\ ~HasTunnelPhrasing(last_call[1].arg)
    /\ UpToFirstDot(AfterObjectName(last_call[1].arg)) = "Router7"
    /\ ResolveOf(last_call[1], "Router7") = Some(9)
    /\ last_call[1].ret = None
    /\ identificadores_cache = EmptyMap

\* How many of the lines are the line l.
Occurrences(lines, l) ==
    Cardinality({n \in 1..Len(lines) : lines[n] = l})

\* The lines hold the INSERT of each of the events once.
OncePerEvent(lines, events) ==
    \A n \in 1..Len(events) : Occurrences(lines, InsertOf(events[n])) = 1

\* The distinct keys of the events of the first n files, file by file.
RECURSIVE KeysPerFile(_)
KeysPerFile(n) ==
    IF n = 0 THEN 0
    ELSE KeysPerFile(n - 1) + Cardinality(KeysOf(calls[n].events))

\* C28: duplicates are removed within one file only: the script of every
\* file holds one INSERT for each event extracted from that file, whether or
\* not another file of the run yielded an event with the same key, and
\* total_events counts the keys of each file separately.
C28_DedupPerFile ==
    /\ \A i \in 1..Len(results) :
          OncePerEvent(InsertLines(files[results[i].sql_file]),
                       calls[i].events)
    /\ (pc = "returned" /\ trap_files # <<>>) =>
          response[1].total_events = KeysPerFile(Len(calls))

\* the event of the second file was also extracted, twice, from the first:
\* each script holds its INSERT once and total_events is 2
C28_Witness ==
    /\ pc = "returned"
    /\ Len(results) = 2
    /\ Len(calls[1].events) = 2
    /\ calls[2].events = <<calls[1].events[1]>>
    /\ results[1].sql_file # results[2].sql_file
    /\ InsertLines(files[results[1].sql_file])
          = <<InsertOf(calls[2].events[1])>>
    /\ InsertLines(files[results[2].sql_file])
          = <<InsertOf(calls[2].events[1])>>
    /\ response[1].total_events = 2

\* The call is a resolve that returned NotFound.
NotFound(call) ==
    call # None /\ call[1].op = "resolve" /\ call[1].ret = None

\* C29: a lookup that finds nothing is not remembered: a resolve that
\* returns NotFound (no record, the empty fragment or a failed query) leaves
\* the cache as it was; a resolve changes the cache only by adding the
\* fragment it resolved; and a resolve of the fragment whose last resolve
\* returned NotFound asks the catalogue again, returning an id when the
\* store answers and a record matches it by then.
C29_NotFoundNotCached ==
    [][Resolves(last_call, last_call') =>
          /\ last_call'[1].ret = None =>
                identificadores_cache' = identificadores_cache
          /\ identificadores_cache' # identificadores_cache =>
                /\ last_call'[1].ret # None
                /\ identificadores_cache'
                     = CacheWith(identificadores_cache, last_call'[1].arg,
                                 last_call'[1].ret[1])
          /\ (/\ NotFound(last_call)
              /\ last_call'[1].arg = last_call[1].arg
              /\ last_call'[1].up
              /\ last_call'[1].arg \notin last_call'[1].down
              /\ SubstringHits(store_rows, last_call'[1].arg) # {}
              /\ last_call'[1].arg # "")
                => last_call'[1].ret # None]_vars

\* resolve("10.0.0.1") met a failing store: it returned NotFound and the
\* cache holds nothing for it
C29_Witness ==
    /\ NotFound(last_call)
    /\ last_call[1].arg = "10.0.0.1"
    /\ ~last_call[1].up
    /\ SubstringHits(last_call[1].rows, "10.0.0.1") # {}
    /\ identificadores_cache = last_call[1].before
    /\ "10.0.0.1" \notin DOMAIN identificadores_cache

\* The query for the Object_Name identifier of the line failed: the
\* catalogue holds the identifier, the strategy looked it up, and the cache
\* does not hold it.
ObjectNameQueryFailed(line) ==
    /\ HasTab(line)
    /\ ~HasMarker(line, <<"Tunnel">>)
    /\ HasMarker(line, <<"Object_Name=">>)
    /\ SubstringHits(Catalogue, UpToFirstDot(AfterObjectName(line))) # {}
    /\ UpToFirstDot(AfterObjectName(line)) \notin DOMAIN identificadores_cache

\* The query for the loaded IP of a tunnel line failed: the marca is in no
\* record, the IP is, and the cache does not hold it.
TunnelIpQueryFailed(line) ==
    /\ HasTab(line)
    /\ HasMarker(line, <<"Tunnel T9 from 10.0.0.1 FULL to DOWN">>)
    /\ SubstringHits(Catalogue, "10.0.0.1") # {}
    /\ "10.0.0.1" \notin DOMAIN identificadores_cache

\* C30: once the IP list is loaded, a query that fails during a lookup does
\* not end the run: the line whose lookup failed is recorded as an error of
\* its file, every useful line of the file still gets its outcome, no
\* exception of the store leaves process_all_traps, and a run that returns
\* has a result for every trap file.
C30_QueryFailureNotFatal ==
    /\ \A i \in 1..Len(calls) :
          \A n \in 1..Len(calls[i].useful_lines) :
             (\/ ObjectNameQueryFailed(calls[i].useful_lines[n])
              \/ TunnelIpQueryFailed(calls[i].useful_lines[n]))
                => /\ \E k \in 1..Len(calls[i].errors) :
                         calls[i].errors[k]
                           = "No se pudo procesar: " \o calls[i].useful_lines[n]
                   /\ Len(calls[i].events) + Len(calls[i].errors)
                         = Len(calls[i].useful_lines)
    /\ (calls # <<>> /\ raised # None) =>
          raised[1] \in {"sql_file", "error_file"}
    /\ (pc = "returned" /\ trap_files # <<>>) =>
          Len(results) = Len(trap_files)

\* the query for Router7 failed in the first of two files; the line is an
\* error of that file, the second file was processed and the run returned
C30_Witness ==
    /\ pc = "returned"
    /\ Len(calls) = 2
    /\ Len(results) = 2
    /\ Len(calls[1].useful_lines) = 1
    /\ ObjectNameQueryFailed(calls[1].useful_lines[1])
    /\ calls[1].errors
          = <<"No se pudo procesar: " \o calls[1].useful_lines[1]>>
    /\ results[1].errors_count = 1
    /\ Len(calls[2].useful_lines) = 1

====
